---- MODULE Spec2Model ----
(***************************************************************************)
(* A model of the aomail front end: the category update/deletion modal     *)
(* (UpdateCategoryModal), the category tab bar (Categories.vue) and the    *)
(* prompt-customization page, together with the HTTP endpoints they call.  *)
(* Every request is modelled as a message that is first in stage           *)
(* "request" (sent, not yet handled by the server) and then in stage       *)
(* "response" (handled, not yet received by the client); the code after    *)
(* an `await` is the action that consumes the response, and it reads the   *)
(* refs as they are at that moment.                                        *)
(***************************************************************************)
EXTENDS Integers, Sequences, FiniteSets, TLC

\* ------------------------------------------------------------------ bounds
MaxInFlight == 2
MaxGestures == 4
MaxDependents == 1
MaxPieces == 2
MaxPromptRequests == 1
MaxPromptGestures == 3
MaxMounts == 2
MaxAccountGestures == 2
MaxAccountInFlight == 4
MaxEmails == 2
MaxPromptMounts == 2
MaxKeyRequests == 3

\* --------------------------------------------------------------- constants
DEFAULT_CATEGORY == "Others"

\* Names that can be typed in the name field or carried by a category.
TypedNames == {"A", "B", DEFAULT_CATEGORY, ""}
TypedDescriptions == {"d", " "}

\* Values at the two length limits of the forms, named by their length.
Name50 == "<a name of 50 characters>"
Name51 == "<a name of 51 characters>"
Description300 == "<a description of 300 characters>"
Description301 == "<a description of 301 characters>"

\* What is typed in the forms when the limits are tried.
FormNames == {"A", " ", Name50, Name51}
FormDescriptions == {"d", " ", Description300, Description301}

\* props.category === null
NullCategory == [name |-> "<null>", description |-> ""]

VARIABLES
    \* ---- UpdateCategoryModal (src/unnamed/part_004, 390-686) and its parent
    isOpen,                      \* props.isOpen
    category,                    \* props.category
    categoryName,                \* ref bound to the name input
    categoryDescription,         \* ref bound to the description textarea
    errorMessage,
    isCategoryDeletionModalOpen,
    nbRulesLinked,
    nbEmailsLinked,
    categories,                  \* injected Ref<Category[]>
    selectedCategory,            \* injected Ref<string>
    refreshPending,              \* fetchCategoriesAndTotals() started, not finished
    \* ---- NewCategoryModal (src/frontend/src/pages/Inbox/components/NewCategoryModal.vue)
    newIsOpen,                   \* props.isOpen
    newCategoryName,             \* ref bound to the input #newCategoryName
    newCategoryDescription,      \* ref bound to the textarea #newCategoryDescription
    newErrorMessage,
    \* ---- network and server
    net,                         \* messages in flight
    srvCategories,               \* set of Category records held by the server
    srvRules,                    \* category name -> number of rules
    srvEmails,                   \* category name -> number of emails
    \* ---- history (for the properties only)
    raced,                       \* an update and a delete of one category were in flight together
    shownFor,                    \* the category whose counts the deletion modal shows
    lastKey,                     \* history: the key this step pressed, if it pressed one
    gestures,                    \* user gestures made so far, on either page
    \* ---- prompt-customization page (src/unnamed/part_003, 252-540)
    llmProvider,
    llmModel,
    promptInput,
    editingPrompt,
    customizablePrompts,
    promptPopup,                 \* the last popup shown through displayPopup
    pnet,                        \* messages in flight
    srvProvider,                 \* the stored provider name
    srvModel,                    \* the stored model name
    srvPrompts,                  \* task key -> stored template body
    lastSave,                    \* history: what the last savePrompt call did
    lastDone,                    \* history: the last call that ran to its end and succeeded
    keydownListeners,            \* keydown listeners registered on the document
    promptMounted,               \* the prompt page is mounted
    detached,                    \* the refs of the unmounted instances of the page
    \* ---- account settings page (src/unnamed/part_004, 248-388)
    typeApi,                     \* ref of the mounted component
    userPlan,                    \* injected Ref<Plan>, NoPlan while there is none
    isAddUserDescriptionModalOpen,
    emailsLinked,                \* injected Ref<EmailLinked[]>
    username,
    accountPopups,               \* how many popups displayPopup has shown, and the last
    urlCode,                     \* the "code" parameter of window.location.search
    sessionStorage,
    mounts,                      \* how many times the component has been mounted
    anet,                        \* messages in flight
    plan,                        \* the plan the billing collaborator holds for the user
    srvLinked,                   \* the linked mailboxes the server holds, in order
    \* ---- classification engine, one inbound email at a time
    pipeline,                    \* the state of the email being classified
    received,                    \* how many emails have entered the engine
    activeTemplate,              \* the placeholders of the template loaded for the email
    attempts,                    \* adapter calls that have failed for the email
    lastError,                   \* the last error of the email
    verdict,                     \* the verdict the adapter returned for the email
    emailRecord,                 \* the classification record of the email
    registry,                    \* the names of the categories the Registry holds
    defaultPriority,             \* the priority a record has before any verdict
    \* ---- user preferences
    languageSelected,            \* ref: the language of the interface
    i18nLocale,                  \* i18n.global.locale
    themeSelected,               \* ref: the theme of the interface
    timezoneSelected,            \* ref: the time zone dates are shown in
    localStorage,                \* key -> the item stored, <<>> if none
    currentUrl,                  \* window.location.href, as its pieces between "?"
    preferenceAwaited,           \* where initializePreferences stands
    prefNet                      \* the preference request in flight

catVars == <<isOpen, category, categoryName, categoryDescription, errorMessage,
             isCategoryDeletionModalOpen, nbRulesLinked, nbEmailsLinked,
             categories, selectedCategory, refreshPending,
             newIsOpen, newCategoryName, newCategoryDescription, newErrorMessage,
             net, srvCategories, srvRules, srvEmails, raced, shownFor,
             lastKey>>

promptVars == <<llmProvider, llmModel, promptInput, editingPrompt,
                customizablePrompts, promptPopup, pnet,
                srvProvider, srvModel, srvPrompts, lastSave, lastDone,
                keydownListeners, promptMounted, detached>>

accountVars == <<typeApi, userPlan, isAddUserDescriptionModalOpen, emailsLinked,
                 username, accountPopups, urlCode, sessionStorage, mounts, anet,
                 plan, srvLinked>>

engineVars == <<pipeline, received, activeTemplate, attempts, lastError, verdict,
                emailRecord, registry, defaultPriority>>

prefVars == <<languageSelected, i18nLocale, themeSelected, timezoneSelected,
              localStorage, currentUrl, preferenceAwaited, prefNet>>

vars == <<catVars, promptVars, accountVars, engineVars, prefVars, gestures>>

\* What a step of one page leaves alone.
offCategory == <<promptVars, accountVars, engineVars, prefVars>>
offPrompt == <<catVars, accountVars, engineVars, prefVars>>
offAccount == <<catVars, promptVars, engineVars, prefVars>>
offEngine == <<catVars, promptVars, accountVars, prefVars>>
offPreferences == <<catVars, promptVars, accountVars, engineVars>>

srvVars == <<srvCategories, srvRules, srvEmails>>
delModalVars == <<isCategoryDeletionModalOpen, nbRulesLinked, nbEmailsLinked>>
formVars == <<categoryName, categoryDescription>>
newModalVars == <<newIsOpen, newCategoryName, newCategoryDescription, newErrorMessage>>
updateModalVars == <<isOpen, category, formVars, errorMessage, delModalVars, shownFor>>

\* ------------------------------------------------------------ sequences
Names(cats) == {cats[i].name : i \in DOMAIN cats}

\* Array.prototype.findIndex: the first index whose element has the name, 0 if none
\* (JavaScript's -1).
FindIndex(cats, n) ==
    IF \E i \in DOMAIN cats : cats[i].name = n
    THEN CHOOSE i \in DOMAIN cats :
            /\ cats[i].name = n
            /\ \A j \in DOMAIN cats : cats[j].name = n => i <= j
    ELSE 0

\* Array.prototype.splice(index, 1)
Splice(cats, i) == [j \in 1..(Len(cats) - 1) |-> IF j < i THEN cats[j] ELSE cats[j + 1]]

\* String.prototype.trim on the values that can be typed: " " is the one made of
\* white space only.
Trim(s) == IF s = " " THEN "" ELSE s

\* String.prototype.length of the values that can be typed.
StrLen(s) ==
    IF s = "" THEN 0
    ELSE IF s = DEFAULT_CATEGORY THEN 6
    ELSE IF s = Name50 THEN 50
    ELSE IF s = Name51 THEN 51
    ELSE IF s = Description300 THEN 300
    ELSE IF s = Description301 THEN 301
    ELSE 1

MaxNameLength == 50
MaxDescriptionLength == 300

\* ------------------------------------------------------------- messages
\* A request and, later, its response. confirmed, depsName, basisRules and
\* basisEmails are not sent: they record, for a delete_category request, whether
\* the user confirmed it, which category the dependency counts it rests on were
\* read for, and those counts. In a delete_category response nbRules and nbEmails
\* record what the server found when it deleted.
Message(id, kind, name, newName, desc) ==
    [id |-> id, kind |-> kind, stage |-> "request",
     categoryName |-> name, newCategoryName |-> newName, description |-> desc,
     success |-> FALSE, nbRules |-> 0, nbEmails |-> 0,
     confirmed |-> FALSE, depsName |-> "", basisRules |-> 0, basisEmails |-> 0]

DeleteMessage(id, name, byUser, depsFor, rules, emails) ==
    [Message(id, "delete_category", name, "", "") EXCEPT
        !.confirmed = byUser, !.depsName = depsFor,
        !.basisRules = rules, !.basisEmails = emails]

Requests(kind) == {m \in net : m.kind = kind /\ m.stage = "request"}
Responses(kind) == {m \in net : m.kind = kind /\ m.stage = "response"}

Respond(m, ok, r, e) == [m EXCEPT !.stage = "response", !.success = ok, !.nbRules = r, !.nbEmails = e]

CanSend == Cardinality(net) < MaxInFlight

FreeId == CHOOSE i \in 1..MaxInFlight :
              /\ \A m \in net : m.id # i
              /\ \A j \in 1..(i - 1) : \E m \in net : m.id = j

\* An update_category and a delete_category for the same category are in flight
\* together.
RaceIn(msgs) ==
    \E u \in msgs, d \in msgs :
        /\ u.kind = "update_category"
        /\ d.kind = "delete_category"
        /\ d.categoryName \in {u.categoryName, u.newCategoryName}

\* Every step of the category page leaves the prompt page alone and records
\* whether an update and a delete of one category are now in flight together;
\* a step of the user also counts as one gesture.
ByUser ==
    /\ gestures < MaxGestures
    /\ gestures' = gestures + 1
    /\ raced' = (raced \/ RaceIn(net'))
    /\ lastKey' = ""
    /\ UNCHANGED <<offCategory, newModalVars>>

BySystem ==
    /\ UNCHANGED gestures
    /\ raced' = (raced \/ RaceIn(net'))
    /\ lastKey' = ""
    /\ UNCHANGED <<offCategory, newModalVars>>

\* The same for a step of the modal that adds a category, which leaves the
\* modal that updates one alone.
NewByUser ==
    /\ gestures < MaxGestures
    /\ gestures' = gestures + 1
    /\ raced' = (raced \/ RaceIn(net'))
    /\ lastKey' = ""
    /\ UNCHANGED <<offCategory, updateModalVars>>

NewBySystem ==
    /\ UNCHANGED gestures
    /\ raced' = (raced \/ RaceIn(net'))
    /\ lastKey' = ""
    /\ UNCHANGED <<offCategory, updateModalVars>>

\* ------------------------------------------------- the parent (Inbox page)
\* The parent binds the modal's props and handles its events: "close" clears
\* isOpen, "selectCategory" stores the name, "open-update-category-modal" passes
\* the category and opens the modal.
ParentSelectCategory(c) == c.name

\* ------------------------------------------------------------ Categories.vue
\* selectCategory: a tab is clicked (the modals are full-screen overlays, so not
\* while one is open).
SelectCategory(c) ==
    /\ ~isOpen
    /\ ~newIsOpen
    /\ ~isCategoryDeletionModalOpen
    /\ selectedCategory # c.name
    /\ selectedCategory' = ParentSelectCategory(c)
    /\ UNCHANGED <<isOpen, category, formVars, errorMessage, delModalVars, categories,
                   refreshPending, net, srvVars, shownFor>>
    /\ ByUser

\* Whether the tab bar renders the edit icon for a category.
HasEditIcon(c) == c.name # DEFAULT_CATEGORY

\* openUpdateModal, then the watcher of props.category in the modal: the watcher
\* runs when the prop changes (a category equal in value may be the same object
\* or a fresh copy, so then it may or may not run).
OpenUpdateModal(c, fresh) ==
    /\ HasEditIcon(c)
    /\ ~isOpen
    /\ ~newIsOpen
    /\ ~isCategoryDeletionModalOpen
    /\ category' = c
    /\ isOpen' = TRUE
    /\ IF c # category \/ fresh
       THEN /\ categoryName' = c.name
            /\ categoryDescription' = c.description
       ELSE UNCHANGED formVars
    /\ UNCHANGED <<errorMessage, delModalVars, categories, selectedCategory,
                   refreshPending, net, srvVars, shownFor>>
    /\ ByUser

\* ------------------------------------------------------ UpdateCategoryModal
\* v-model="categoryName": the input exists only while the modal is rendered.
TypeName(n) ==
    /\ isOpen
    /\ n # categoryName
    /\ categoryName' = n
    /\ UNCHANGED <<isOpen, category, categoryDescription, errorMessage, delModalVars,
                   categories, selectedCategory, refreshPending, net, srvVars, shownFor>>
    /\ ByUser

TypeDescription(d) ==
    /\ isOpen
    /\ d # categoryDescription
    /\ categoryDescription' = d
    /\ UNCHANGED <<isOpen, category, categoryName, errorMessage, delModalVars,
                   categories, selectedCategory, refreshPending, net, srvVars, shownFor>>
    /\ ByUser

\* closeModal: emit("close"); resetForm()
CloseModal ==
    /\ isOpen
    /\ isOpen' = FALSE
    /\ errorMessage' = ""
    /\ UNCHANGED <<category, formVars, delModalVars, categories, selectedCategory,
                   refreshPending, net, srvVars, shownFor>>
    /\ ByUser

\* updateCategory, up to its await: the guards, then the PUT.
ValidationError(name, desc) ==
    IF Trim(name) = "" \/ Trim(desc) = "" THEN "pleaseFillAllFields"
    ELSE IF StrLen(name) > MaxNameLength THEN "maxNameCharacters"
    ELSE IF StrLen(desc) > MaxDescriptionLength THEN "maxDescriptionCharacters"
    ELSE ""

UpdateCategory ==
    /\ isOpen
    /\ IF ValidationError(categoryName, categoryDescription) # ""
       THEN /\ errorMessage' = ValidationError(categoryName, categoryDescription)
            /\ errorMessage' # errorMessage
            /\ UNCHANGED net
       ELSE /\ CanSend
            /\ net' = net \cup {Message(FreeId, "update_category", category.name,
                                        categoryName, categoryDescription)}
            /\ UNCHANGED errorMessage
    /\ UNCHANGED <<isOpen, category, formVars, delModalVars, categories,
                   selectedCategory, refreshPending, srvVars, shownFor>>
    /\ ByUser

\* updateCategory after its await. The refs and the prop are read now.
RenameIn(cats, old, new, desc) ==
    [i \in DOMAIN cats |->
        IF cats[i].name = old THEN [name |-> new, description |-> desc] ELSE cats[i]]

UpdateCategoryResponse(m) ==
    /\ m \in Responses("update_category")
    /\ net' = net \ {m}
    /\ IF m.success
       THEN /\ categories' = RenameIn(categories, category.name, categoryName,
                                      categoryDescription)
            /\ refreshPending' = TRUE
            /\ selectedCategory' = ParentSelectCategory(
                   [name |-> categoryName, description |-> categoryDescription])
            /\ isOpen' = FALSE
            /\ errorMessage' = ""
       ELSE UNCHANGED <<categories, refreshPending, selectedCategory, isOpen,
                        errorMessage>>
    /\ UNCHANGED <<category, formVars, delModalVars, srvVars, shownFor>>
    /\ BySystem

\* deleteCategory, up to its await: the DELETE carries the name field's value.
DeleteRequestName == categoryName

\* openCategoryDeletionModal, up to its await.
OpenCategoryDeletionModal ==
    /\ isOpen
    /\ CanSend
    /\ net' = net \cup {Message(FreeId, "get_dependencies", category.name, "", "")}
    /\ UNCHANGED <<isOpen, category, formVars, errorMessage, delModalVars, categories,
                   selectedCategory, refreshPending, srvVars, shownFor>>
    /\ ByUser

\* Whether the counts of a dependency response let the delete go without asking.
NoDependents(m) == m.nbRules = 0 /\ m.nbEmails = 0

\* openCategoryDeletionModal after its await (deleteCategory() runs to its own
\* await inside it), then closeModal().
DependenciesResponse(m) ==
    /\ m \in Responses("get_dependencies")
    /\ IF ~m.success
       THEN /\ net' = net \ {m}
            /\ UNCHANGED <<delModalVars, shownFor>>
       ELSE IF NoDependents(m)
       THEN /\ net' = (net \ {m}) \cup
                   {DeleteMessage(m.id, DeleteRequestName, FALSE, m.categoryName,
                                  m.nbRules, m.nbEmails)}
            /\ UNCHANGED <<delModalVars, shownFor>>
       ELSE /\ nbRulesLinked' = m.nbRules
            /\ nbEmailsLinked' = m.nbEmails
            /\ isCategoryDeletionModalOpen' = TRUE
            /\ shownFor' = m.categoryName
            /\ net' = net \ {m}
    /\ isOpen' = FALSE
    /\ errorMessage' = ""
    /\ UNCHANGED <<category, formVars, categories, selectedCategory, refreshPending,
                   srvVars>>
    /\ BySystem

\* closeCategoryDeletionModalModal
CloseCategoryDeletionModal ==
    /\ isCategoryDeletionModalOpen
    /\ isCategoryDeletionModalOpen' = FALSE
    /\ UNCHANGED <<isOpen, category, formVars, errorMessage, nbRulesLinked,
                   nbEmailsLinked, categories, selectedCategory, refreshPending,
                   net, srvVars, shownFor>>
    /\ ByUser

\* The deletion modal's confirmation: @deleteCategory="deleteCategory". The modal
\* shows nbRulesLinked and nbEmailsLinked; whether it also emits "close" on
\* confirmation is the child's choice.
ConfirmDeletion(closes) ==
    /\ isCategoryDeletionModalOpen
    /\ CanSend
    /\ net' = net \cup {DeleteMessage(FreeId, DeleteRequestName, TRUE, shownFor,
                                      nbRulesLinked, nbEmailsLinked)}
    /\ isCategoryDeletionModalOpen' = ~closes
    /\ UNCHANGED <<isOpen, category, formVars, errorMessage, nbRulesLinked,
                   nbEmailsLinked, categories, selectedCategory, refreshPending,
                   srvVars, shownFor>>
    /\ ByUser

\* deleteCategory after its await: the name field is read again.
RemovedName == categoryName

DeleteCategoryResponse(m) ==
    /\ m \in Responses("delete_category")
    /\ net' = net \ {m}
    /\ IF ~m.success
       THEN UNCHANGED <<selectedCategory, categories>>
       ELSE /\ selectedCategory' = ParentSelectCategory(
                   [name |-> DEFAULT_CATEGORY, description |-> ""])
            /\ LET index == FindIndex(categories, RemovedName) IN
               categories' = IF index # 0 THEN Splice(categories, index)
                             ELSE categories
    /\ UNCHANGED <<isOpen, category, formVars, errorMessage, delModalVars,
                   refreshPending, srvVars, shownFor>>
    /\ BySystem

\* ------------------------------------------------------------- the server
\* The category endpoints, after the registry contract: get_dependencies is a
\* pure read, delete_category refuses the Default Category and an unknown name
\* and otherwise removes the category with its rules and moves its emails to the
\* Default Category in one transaction, update_category refuses an unknown old
\* name, a rename of the Default Category and a name that is taken.
CategoryNames == (TypedNames \ {""}) \cup {Name50}

SrvNames == {c.name : c \in srvCategories}

ServerGetDependencies(m) ==
    /\ m \in Requests("get_dependencies")
    /\ net' = (net \ {m}) \cup
           {IF m.categoryName \in SrvNames
            THEN Respond(m, TRUE, srvRules[m.categoryName], srvEmails[m.categoryName])
            ELSE Respond(m, FALSE, 0, 0)}
    /\ UNCHANGED <<isOpen, category, formVars, errorMessage, delModalVars, categories,
                   selectedCategory, refreshPending, srvVars, shownFor>>
    /\ BySystem

CanDelete(n) == n \in SrvNames /\ n # DEFAULT_CATEGORY

RulesAfterDelete(n) == [srvRules EXCEPT ![n] = 0]

\* The emails of the category are dropped instead of moved.
EmailsDroppedAfterDelete(n) == [srvEmails EXCEPT ![n] = 0]

EmailsAfterDelete(n) ==
    [srvEmails EXCEPT ![DEFAULT_CATEGORY] = @ + srvEmails[n], ![n] = 0]

ServerDelete(m) ==
    /\ m \in Requests("delete_category")
    /\ IF CanDelete(m.categoryName)
       THEN /\ srvCategories' = {c \in srvCategories : c.name # m.categoryName}
            /\ srvRules' = RulesAfterDelete(m.categoryName)
            /\ srvEmails' = EmailsAfterDelete(m.categoryName)
            /\ net' = (net \ {m}) \cup
                   {Respond(m, TRUE, srvRules[m.categoryName], srvEmails[m.categoryName])}
       ELSE /\ net' = (net \ {m}) \cup {Respond(m, FALSE, 0, 0)}
            /\ UNCHANGED srvVars
    /\ UNCHANGED <<isOpen, category, formVars, errorMessage, delModalVars, categories,
                   selectedCategory, refreshPending, shownFor>>
    /\ BySystem

CanUpdate(old, new) ==
    /\ old \in SrvNames
    /\ ~(old = DEFAULT_CATEGORY /\ new # old)
    /\ new # old => new \notin SrvNames

Moved(f, old, new) ==
    IF new = old THEN f ELSE [f EXCEPT ![new] = f[old], ![old] = 0]

ServerUpdate(m) ==
    /\ m \in Requests("update_category")
    /\ IF CanUpdate(m.categoryName, m.newCategoryName)
       THEN /\ srvCategories' = {c \in srvCategories : c.name # m.categoryName} \cup
                   {[name |-> m.newCategoryName, description |-> m.description]}
            /\ srvRules' = Moved(srvRules, m.categoryName, m.newCategoryName)
            /\ srvEmails' = Moved(srvEmails, m.categoryName, m.newCategoryName)
            /\ net' = (net \ {m}) \cup {Respond(m, TRUE, 0, 0)}
       ELSE /\ net' = (net \ {m}) \cup {Respond(m, FALSE, 0, 0)}
            /\ UNCHANGED srvVars
    /\ UNCHANGED <<isOpen, category, formVars, errorMessage, delModalVars, categories,
                   selectedCategory, refreshPending, shownFor>>
    /\ BySystem

\* A request that fails on the way (network error, server error): no effect.
RequestFails(m) ==
    /\ m \in net
    /\ m.stage = "request"
    /\ net' = (net \ {m}) \cup {Respond(m, FALSE, 0, 0)}
    /\ UNCHANGED <<isOpen, category, formVars, errorMessage, delModalVars, categories,
                   selectedCategory, refreshPending, srvVars, shownFor>>
    /\ BySystem

\* The classification pipeline files a new email under an existing category
\* other than the default one.
ClassifyEmail(n) ==
    /\ n \in SrvNames
    /\ n # DEFAULT_CATEGORY
    /\ srvEmails[n] < MaxDependents
    /\ srvEmails' = [srvEmails EXCEPT ![n] = @ + 1]
    /\ UNCHANGED <<isOpen, category, formVars, errorMessage, delModalVars, categories,
                   selectedCategory, refreshPending, net,
                   srvCategories, srvRules, shownFor>>
    /\ BySystem

\* fetchCategoriesAndTotals(), started by updateCategory and not awaited, has
\* finished: the list is the server's, the Default Category first.
NameOrder == <<DEFAULT_CATEGORY, "A", "B", Name50>>

ServerList ==
    LET present == SelectSeq(NameOrder, LAMBDA n : n \in SrvNames) IN
    [i \in DOMAIN present |-> CHOOSE c \in srvCategories : c.name = present[i]]

FetchCategoriesAndTotals ==
    /\ refreshPending
    /\ refreshPending' = FALSE
    /\ categories' = ServerList
    /\ UNCHANGED <<isOpen, category, formVars, errorMessage, delModalVars,
                   selectedCategory, net, srvVars, shownFor>>
    /\ BySystem

\* --------------------------------------------------------- NewCategoryModal
\* The parent opens the modal from the tab bar, which the open modals cover.
OpenNewCategoryModal ==
    /\ ~newIsOpen
    /\ ~isOpen
    /\ ~isCategoryDeletionModalOpen
    /\ newIsOpen' = TRUE
    /\ UNCHANGED <<newCategoryName, newCategoryDescription, newErrorMessage,
                   categories, selectedCategory, refreshPending, net, srvVars>>
    /\ NewByUser

\* v-model="categoryName", v-model="categoryDescription"
TypeNewName(n) ==
    /\ newIsOpen
    /\ n # newCategoryName
    /\ newCategoryName' = n
    /\ UNCHANGED <<newIsOpen, newCategoryDescription, newErrorMessage,
                   categories, selectedCategory, refreshPending, net, srvVars>>
    /\ NewByUser

TypeNewDescription(d) ==
    /\ newIsOpen
    /\ d # newCategoryDescription
    /\ newCategoryDescription' = d
    /\ UNCHANGED <<newIsOpen, newCategoryName, newErrorMessage,
                   categories, selectedCategory, refreshPending, net, srvVars>>
    /\ NewByUser

\* closeModal, 135-138: emit("close"); resetForm()
CloseNewModal ==
    /\ newIsOpen
    /\ newIsOpen' = FALSE
    /\ newCategoryName' = ""
    /\ newCategoryDescription' = ""
    /\ newErrorMessage' = ""
    /\ UNCHANGED <<categories, selectedCategory, refreshPending, net, srvVars>>
    /\ NewByUser

\* addCategory, up to its first await, 146-173: the guards, then the POST.
NewValidationErrorInclusive(name, desc) ==
    IF Trim(name) = "" \/ Trim(desc) = "" THEN "pleaseFillAllFields"
    ELSE IF StrLen(name) >= MaxNameLength THEN "maxNameCharacters"
    ELSE IF StrLen(desc) >= MaxDescriptionLength THEN "maxDescriptionCharacters"
    ELSE ""

NewValidationError(name, desc) ==
    IF Trim(name) = "" \/ Trim(desc) = "" THEN "pleaseFillAllFields"
    ELSE IF StrLen(name) > MaxNameLength THEN "maxNameCharacters"
    ELSE IF StrLen(desc) > MaxDescriptionLength THEN "maxDescriptionCharacters"
    ELSE ""

addCategory ==
    /\ newIsOpen
    /\ IF NewValidationError(newCategoryName, newCategoryDescription) # ""
       THEN /\ newErrorMessage' = NewValidationError(newCategoryName, newCategoryDescription)
            /\ newErrorMessage' # newErrorMessage
            /\ UNCHANGED net
       ELSE /\ CanSend
            /\ net' = net \cup {Message(FreeId, "create_categories", newCategoryName,
                                        "", newCategoryDescription)}
            /\ UNCHANGED newErrorMessage
    /\ UNCHANGED <<newIsOpen, newCategoryName, newCategoryDescription,
                   categories, selectedCategory, refreshPending, srvVars>>
    /\ NewByUser

\* ---- the keydown listeners of the two modals, registered on the document
\* while the components are mounted: a key runs both handlers.
FreeIdAmong(msgs) ==
    CHOOSE i \in 1..(MaxInFlight + 1) :
        /\ \A m \in msgs : m.id # i
        /\ \A j \in 1..(i - 1) : \E m \in msgs : m.id = j

\* addCategory goes on whatever props.isOpen is.
AddCategoryRunsAlways == TRUE

\* addCategory: if (!props.isOpen) return
AddCategoryRuns == newIsOpen

\* updateCategory goes on whatever props.isOpen is.
UpdateCategoryRunsAlways == TRUE

\* updateCategory: if (!props.isOpen) return
UpdateCategoryRuns == isOpen

\* Enter without Shift: addCategory() and updateCategory() are called, and each
\* runs to its return or to its await.
PressEnter ==
    LET newError == NewValidationError(newCategoryName, newCategoryDescription)
        error == ValidationError(categoryName, categoryDescription)
        creates == AddCategoryRuns /\ newError = ""
        updates == UpdateCategoryRuns /\ error = ""
        created == IF creates
                   THEN {Message(FreeIdAmong(net), "create_categories", newCategoryName,
                                 "", newCategoryDescription)}
                   ELSE {}
    IN  /\ gestures < MaxGestures
        /\ Cardinality(net) + (IF creates THEN 1 ELSE 0) + (IF updates THEN 1 ELSE 0)
               <= MaxInFlight
        /\ net' = net \cup created \cup
                  (IF updates
                   THEN {Message(FreeIdAmong(net \cup created), "update_category",
                                 category.name, categoryName, categoryDescription)}
                   ELSE {})
        /\ newErrorMessage' = IF AddCategoryRuns /\ newError # "" THEN newError
                              ELSE newErrorMessage
        /\ errorMessage' = IF UpdateCategoryRuns /\ error # "" THEN error
                           ELSE errorMessage
        /\ UNCHANGED <<newIsOpen, newCategoryName, newCategoryDescription, isOpen,
                       category, formVars, delModalVars, shownFor, categories,
                       selectedCategory, refreshPending, srvVars>>
        /\ gestures' = gestures + 1
        /\ raced' = (raced \/ RaceIn(net'))
        /\ lastKey' = "Enter"
        /\ UNCHANGED offCategory

\* Escape: closeModal() of both modals; whether the deletion modal closes too
\* is its own listener's choice.
PressEscape(closes) ==
    /\ gestures < MaxGestures
    /\ newIsOpen' = FALSE
    /\ newCategoryName' = ""
    /\ newCategoryDescription' = ""
    /\ newErrorMessage' = ""
    /\ isOpen' = FALSE
    /\ errorMessage' = ""
    /\ isCategoryDeletionModalOpen' = (isCategoryDeletionModalOpen /\ ~closes)
    /\ UNCHANGED <<category, formVars, nbRulesLinked, nbEmailsLinked, shownFor,
                   categories, selectedCategory, refreshPending, net, srvVars>>
    /\ gestures' = gestures + 1
    /\ raced' = (raced \/ RaceIn(net'))
    /\ lastKey' = "Escape"
    /\ UNCHANGED offCategory

\* addCategory after `await postData`, 174-204. The refs are read now. On
\* success the handler goes on to await createDefaultFilters and the three
\* fetches of the parent, which the message in stage "created" stands for.
AddCategoryResponse(m) ==
    /\ m \in Responses("create_categories")
    /\ IF m.success
       THEN /\ selectedCategory' = newCategoryName
            /\ categories' = Append(categories,
                   [name |-> newCategoryName, description |-> newCategoryDescription])
            /\ net' = (net \ {m}) \cup {[m EXCEPT !.stage = "created"]}
            /\ UNCHANGED newModalVars
       ELSE /\ net' = net \ {m}
            /\ newIsOpen' = FALSE
            /\ newCategoryName' = ""
            /\ newCategoryDescription' = ""
            /\ newErrorMessage' = ""
            /\ UNCHANGED <<categories, selectedCategory>>
    /\ UNCHANGED <<refreshPending, srvVars>>
    /\ NewBySystem

\* addCategory after its last await, 185-196: fetchCategoriesAndTotals has
\* replaced the list by the server's, and the modal is closed.
AddCategoryDone(m) ==
    /\ m \in net
    /\ m.stage = "created"
    /\ net' = net \ {m}
    /\ categories' = ServerList
    /\ newIsOpen' = FALSE
    /\ newCategoryName' = ""
    /\ newCategoryDescription' = ""
    /\ newErrorMessage' = ""
    /\ UNCHANGED <<selectedCategory, refreshPending, srvVars>>
    /\ NewBySystem

\* The create endpoint, after the registry contract: a name that exists, and a
\* name or a description outside the length bounds, are refused.
CanCreate(name, desc) ==
    /\ name \notin SrvNames
    /\ Trim(name) # ""
    /\ StrLen(name) <= MaxNameLength
    /\ StrLen(desc) <= MaxDescriptionLength

ServerCreate(m) ==
    /\ m \in Requests("create_categories")
    /\ IF CanCreate(m.categoryName, m.description)
       THEN /\ srvCategories' = srvCategories \cup
                   {[name |-> m.categoryName, description |-> m.description]}
            /\ net' = (net \ {m}) \cup {Respond(m, TRUE, 0, 0)}
       ELSE /\ net' = (net \ {m}) \cup {Respond(m, FALSE, 0, 0)}
            /\ UNCHANGED srvCategories
    /\ UNCHANGED <<newModalVars, categories, selectedCategory, refreshPending,
                   srvRules, srvEmails>>
    /\ NewBySystem

\* ------------------------------------------------ prompt-customization page
\* The provider catalog. A provider is held by its name, a model by its name.
llmProviderOptions ==
    <<[provider |-> "google", models |-> <<"gemini-1.5-pro", "gemini-2.0-flash">>],
      [provider |-> "openai", models |-> <<"gpt-4o-mini">>],
      [provider |-> "anthropic", models |-> <<"claude-3-5-haiku-latest">>],
      [provider |-> "mistral", models |-> <<"ministral-8b-latest", "mistral-small-latest">>],
      [provider |-> "groq", models |-> <<"llama3-8b-8192">>],
      [provider |-> "deepseek", models |-> <<"deepseek-chat">>]>>

Range(seq) == {seq[i] : i \in DOMAIN seq}

ProviderNames == {llmProviderOptions[i].provider : i \in DOMAIN llmProviderOptions}

\* Array.prototype.find over the catalog, with the `|| llmProviderOptions[0]` of
\* fetchLLMSettings.
FindProvider(name) ==
    IF name \in ProviderNames
    THEN llmProviderOptions[CHOOSE i \in DOMAIN llmProviderOptions :
                               llmProviderOptions[i].provider = name]
    ELSE llmProviderOptions[1]

\* The computed llmModelOptions for a provider name.
llmModelOptions(providerName) ==
    IF providerName \in ProviderNames THEN FindProvider(providerName).models ELSE <<>>

\* llmModelOptions.value.find(...) || llmModelOptions.value[0]
FindModel(providerName, name) ==
    IF name \in Range(llmModelOptions(providerName)) THEN name
    ELSE llmModelOptions(providerName)[1]

\* changeProvider: the first model of the provider that llmProvider holds when the
\* handler runs.
changeProvider(current) == llmModelOptions(current)[1]

\* ---- strings, as sequences of characters
\* String.prototype.includes
Includes(body, pattern) ==
    \E i \in 0..(Len(body) - Len(pattern)) :
        SubSeq(body, i + 1, i + Len(pattern)) = pattern

\* The template literal `{${variable}}`
Placeholder(variable) == <<"{">> \o variable \o <<"}">>

\* Array.prototype.join
RECURSIVE Join(_, _)
Join(items, separator) ==
    IF Len(items) = 0 THEN <<>>
    ELSE IF Len(items) = 1 THEN items[1]
    ELSE items[1] \o separator \o Join(Tail(items), separator)

\* What can be typed in the textarea: up to MaxPieces of these pieces, one after
\* the other.
Pieces == {<<"{", "s", "}">>, <<"{", "t", "}">>, <<"{", "s">>}

RECURSIVE Bodies(_)
Bodies(n) ==
    IF n = 0 THEN {<<>>}
    ELSE Bodies(n - 1) \cup {b \o p : b \in Bodies(n - 1), p \in Pieces}

TypedBodies == Bodies(MaxPieces)

\* ---- what the settings endpoint serves
PromptKeys == {"promptA", "promptB"}

RequiredVariables ==
    [k \in PromptKeys |->
        IF k = "promptA" THEN <<<<"s">>>> ELSE <<<<"s">>, <<"t">>>>]

DefaultPrompts ==
    [k \in PromptKeys |->
        IF k = "promptA" THEN <<"{", "s", "}">>
        ELSE <<"{", "s", "}", "{", "t", "}">>]

\* editingPrompt === null
NoPrompt == "<null>"

NoData ==
    [llmProvider |-> "", llmModel |-> "",
     prompts |-> [k \in PromptKeys |-> [prompt |-> <<>>, variables |-> <<>>]]]

\* A request to user/preferences/llm_settings/ and, later, its response. then is
\* what the caller of fetchLLMSettings does after it: "listen" (onMounted
\* registers the keydown listener), "reload" (resetSelectedPrompt reloads the
\* textarea) or nothing.
\* What a call can change: the stored templates and settings, and the page's.
Snapshot ==
    [templates |-> srvPrompts, storedProvider |-> srvProvider, storedModel |-> srvModel,
     prompts |-> customizablePrompts, provider |-> llmProvider, model |-> llmModel,
     editing |-> editingPrompt, input |-> promptInput]

NoSnapshot ==
    [templates |-> DefaultPrompts, storedProvider |-> "", storedModel |-> "",
     prompts |-> NoData.prompts, provider |-> "", model |-> "",
     editing |-> NoPrompt, input |-> <<>>]

\* The fields from caller on are not sent; they record which handler the
\* request belongs to (for the requests of savePrompt, resetToDefault and
\* resetSelectedPrompt), the gesture that called it, whether nothing else was
\* in flight then, whether the call repeats the call that ended just before it,
\* and, if it does, what the call found; kept records whether the handler left
\* the page as it was when it sent the request, and owner which unmounted
\* instance of the page sent the request (0: the mounted one).
PromptMessage(id, kind) ==
    [id |-> id, kind |-> kind, stage |-> "request", llmProvider |-> "", llmModel |-> "",
     key |-> NoPrompt, body |-> <<>>, success |-> FALSE, data |-> NoData, then |-> "",
     caller |-> "", clicked |-> 0, alone |-> FALSE, again |-> FALSE,
     before |-> NoSnapshot, kept |-> TRUE, owner |-> 0]

NoneDone == [op |-> "", key |-> NoPrompt, body |-> <<>>, at |-> 0, times |-> 0]

\* The call repeats the last one: same handler, same prompt, same body,
\* nothing in flight and no gesture in between.
Again(op, key, body, msgs) ==
    /\ msgs = {}
    /\ lastDone.op = op
    /\ lastDone.key = key
    /\ lastDone.body = body
    /\ lastDone.at = gestures

Called(m, op, msgs) ==
    [m EXCEPT !.caller = op, !.clicked = gestures + 1, !.alone = (msgs = {}),
              !.again = Again(op, m.key, m.body, msgs),
              !.before = IF Again(op, m.key, m.body, msgs) THEN Snapshot ELSE NoSnapshot]

\* The next request of the call that m belongs to.
Continued(m, request) ==
    [request EXCEPT !.caller = m.caller, !.clicked = m.clicked, !.alone = m.alone,
                    !.again = m.again, !.before = m.before, !.key = m.key]

\* What lastDone becomes when the call of m ends with success and msgs stay in
\* flight: the call is recorded if nothing else was in flight from its start to
\* its end and no gesture was made meanwhile.
DoneAfter(m, msgs) ==
    IF msgs = {} /\ m.alone /\ m.clicked = gestures
    THEN [op |-> m.caller, key |-> m.key, body |-> m.body, at |-> gestures,
          times |-> IF m.again /\ m.clicked = gestures THEN 2 ELSE 1]
    ELSE NoneDone

GetSettings(id, continuation) == [PromptMessage(id, "get") EXCEPT !.then = continuation]

PutSettings(id, provider, model) ==
    [PromptMessage(id, "put_settings") EXCEPT !.llmProvider = provider, !.llmModel = model]

PutPrompt(id, key, body) ==
    [PromptMessage(id, "put_prompt") EXCEPT !.key = key, !.body = body]

ResetAll(id) == PromptMessage(id, "reset_all")

ResetOne(id, key) == [PromptMessage(id, "reset_one") EXCEPT !.key = key]

PromptRequests(kind) == {m \in pnet : m.kind = kind /\ m.stage = "request"}
PromptResponses(kind) == {m \in pnet : m.kind = kind /\ m.stage = "response"}

PromptCanSend(msgs) == Cardinality(msgs) < MaxPromptRequests

PromptFreeId(msgs) ==
    CHOOSE i \in 1..MaxPromptRequests :
        /\ \A m \in msgs : m.id # i
        /\ \A j \in 1..(i - 1) : \E m \in msgs : m.id = j

\* displayPopup(type, title, message)
Popup(type, title, message) == [type |-> type, title |-> title, message |-> message]

NoPopup == Popup("", "", <<>>)

\* A step of the prompt page leaves the category page alone; a step of the user
\* also counts as one gesture.
PromptByUser ==
    /\ gestures < MaxPromptGestures
    /\ gestures' = gestures + 1
    /\ UNCHANGED <<offPrompt, promptMounted, detached>>

PromptBySystem == UNCHANGED <<gestures, offPrompt, promptMounted, detached>>

promptSrvVars == <<srvProvider, srvModel, srvPrompts>>
selectionVars == <<llmProvider, llmModel>>
editorVars == <<promptInput, editingPrompt>>

\* The provider multiselect picks another provider: the component emits "select"
\* (changeProvider) and "update:modelValue" (v-model), in an order of its own.
SelectProvider(providerName, selectFirst) ==
    /\ providerName \in ProviderNames
    /\ providerName # llmProvider
    /\ llmProvider' = providerName
    /\ llmModel' = IF selectFirst THEN changeProvider(llmProvider)
                   ELSE changeProvider(providerName)
    /\ UNCHANGED <<editorVars, customizablePrompts, promptPopup, pnet, promptSrvVars,
                   lastSave, lastDone, keydownListeners>>
    /\ PromptByUser

\* The model multiselect picks another model among llmModelOptions.
SelectModel(modelName) ==
    /\ modelName \in Range(llmModelOptions(llmProvider))
    /\ modelName # llmModel
    /\ llmModel' = modelName
    /\ UNCHANGED <<llmProvider, editorVars, customizablePrompts, promptPopup, pnet,
                   promptSrvVars, lastSave, lastDone, keydownListeners>>
    /\ PromptByUser

\* setEditingPrompt: a listed prompt is clicked.
setEditingPrompt(promptName) ==
    /\ promptName \in DOMAIN customizablePrompts
    /\ editingPrompt' = promptName
    /\ promptInput' = customizablePrompts[promptName].prompt
    /\ <<editingPrompt', promptInput'>> # <<editingPrompt, promptInput>>
    /\ UNCHANGED <<selectionVars, customizablePrompts, promptPopup, pnet, promptSrvVars,
                   lastSave, lastDone, keydownListeners>>
    /\ PromptByUser

\* v-model="promptInput": the textarea exists only while a prompt is edited.
TypePrompt(body) ==
    /\ editingPrompt # NoPrompt
    /\ body # promptInput
    /\ promptInput' = body
    /\ UNCHANGED <<selectionVars, editingPrompt, customizablePrompts, promptPopup, pnet,
                   promptSrvVars, lastSave, lastDone, keydownListeners>>
    /\ PromptByUser

\* The required variables whose placeholder the body lacks, filtered on the bare
\* name instead of the placeholder.
MissingVariablesUnbraced(variables, body) ==
    SelectSeq(variables, LAMBDA v : ~Includes(body, v))

\* savePrompt: promptData.variables.filter(...)
MissingVariables(variables, body) ==
    SelectSeq(variables, LAMBDA v : ~Includes(body, Placeholder(v)))

\* Only the first missing variable is named.
FirstMissingVariableDesc(variables, body) == MissingVariables(variables, body)[1]

\* savePrompt: the variables of the missingVariablesDesc message
MissingVariablesDesc(variables, body) ==
    Join(MissingVariables(variables, body), <<",", " ">>)

\* savePrompt, up to its await, with msgs already in flight.
SavePromptFrom(msgs) ==
    IF editingPrompt = NoPrompt
    THEN /\ promptPopup' = Popup("error", "noPromptSelected", <<>>)
         /\ pnet' = msgs
         /\ UNCHANGED lastSave
    ELSE LET promptData == customizablePrompts[editingPrompt]
             missingVariables == MissingVariables(promptData.variables, promptInput)
         IN  IF Len(missingVariables) > 0
             THEN /\ promptPopup' = Popup("error", "missingVariables",
                         MissingVariablesDesc(promptData.variables, promptInput))
                  /\ pnet' = msgs
                  /\ lastSave' = [key |-> editingPrompt, body |-> promptInput,
                                  put |-> FALSE, shown |-> promptPopup']
             ELSE /\ PromptCanSend(msgs)
                  /\ pnet' = msgs \cup
                         {Called(PutPrompt(PromptFreeId(msgs), editingPrompt, promptInput),
                                 "savePrompt", msgs)}
                  /\ UNCHANGED promptPopup
                  /\ lastSave' = [key |-> editingPrompt, body |-> promptInput,
                                  put |-> TRUE, shown |-> NoPopup]

\* The save button of the editor, rendered only while a prompt is edited.
savePrompt ==
    /\ editingPrompt # NoPrompt
    /\ SavePromptFrom(pnet)
    /\ UNCHANGED <<selectionVars, editorVars, customizablePrompts, promptSrvVars,
                   lastDone, keydownListeners>>
    /\ PromptByUser

\* savePrompt after its await
SavePromptResponse(m) ==
    /\ m \in PromptResponses("put_prompt")
    /\ pnet' = pnet \ {m}
    /\ promptPopup' = IF m.success THEN Popup("success", "promptSaved", <<>>)
                      ELSE Popup("error", "savePromptError", <<>>)
    /\ lastDone' = IF m.success THEN DoneAfter(m, pnet') ELSE lastDone
    /\ UNCHANGED <<selectionVars, editorVars, customizablePrompts, promptSrvVars,
                   lastSave, keydownListeners>>
    /\ PromptBySystem

\* saveLLMSettings, up to its await
saveLLMSettings ==
    /\ PromptCanSend(pnet)
    /\ pnet' = pnet \cup {PutSettings(PromptFreeId(pnet), llmProvider, llmModel)}
    /\ UNCHANGED <<selectionVars, editorVars, customizablePrompts, promptPopup,
                   promptSrvVars, lastSave, lastDone, keydownListeners>>
    /\ PromptByUser

\* saveLLMSettings after its await: on success fetchLLMSettings() starts.
SaveLLMSettingsResponse(m) ==
    /\ m \in PromptResponses("put_settings")
    /\ IF m.success
       THEN /\ promptPopup' = Popup("success", "saveLLMSettingsSuccess", <<>>)
            /\ pnet' = (pnet \ {m}) \cup {GetSettings(m.id, "")}
       ELSE /\ promptPopup' = Popup("error", "saveLLMSettingsError", <<>>)
            /\ pnet' = pnet \ {m}
    /\ UNCHANGED <<selectionVars, editorVars, customizablePrompts, promptSrvVars,
                   lastSave, lastDone, keydownListeners>>
    /\ PromptBySystem

\* The keydown listener of onMounted on Ctrl+S: saveLLMSettings(), then
\* savePrompt() if a prompt is edited; both run to their await.
CtrlS ==
    /\ keydownListeners > 0
    /\ PromptCanSend(pnet)
    /\ LET sent == pnet \cup {PutSettings(PromptFreeId(pnet), llmProvider, llmModel)}
       IN  IF editingPrompt # NoPrompt
           THEN SavePromptFrom(sent)
           ELSE /\ pnet' = sent
                /\ UNCHANGED <<promptPopup, lastSave>>
    /\ UNCHANGED <<selectionVars, editorVars, customizablePrompts, promptSrvVars,
                   lastDone, keydownListeners>>
    /\ PromptByUser

\* ---- the page unmounted and mounted again. The component has no onUnmounted:
\* the listener that onMounted registers stays on the document and keeps the
\* refs of its instance.
Refs ==
    [provider |-> llmProvider, model |-> llmModel, editing |-> editingPrompt,
     input |-> promptInput, prompts |-> customizablePrompts]

\* The user leaves the page while none of its requests is in flight: the refs
\* of the instance stay with its listener.
PromptUnmount ==
    /\ promptMounted
    /\ pnet = {}
    /\ keydownListeners > Len(detached)
    /\ promptMounted' = FALSE
    /\ detached' = Append(detached, Refs)
    /\ llmProvider' = llmProviderOptions[1].provider
    /\ llmModel' = llmProviderOptions[1].models[1]
    /\ promptInput' = <<>>
    /\ editingPrompt' = NoPrompt
    /\ customizablePrompts' = <<>>
    /\ UNCHANGED <<promptPopup, pnet, promptSrvVars, lastSave, lastDone,
                   keydownListeners>>
    /\ gestures < MaxPromptGestures
    /\ gestures' = gestures + 1
    /\ UNCHANGED offPrompt

IdBase(msgs) ==
    IF msgs = {} THEN 0
    ELSE CHOOSE i \in {m.id : m \in msgs} : \A m \in msgs : m.id <= i

\* The user comes back: a new instance with its refs at their initial values,
\* and onMounted calls fetchLLMSettings().
PromptMount ==
    /\ ~promptMounted
    /\ Len(detached) < MaxPromptMounts
    /\ Cardinality(pnet) < MaxKeyRequests
    /\ promptMounted' = TRUE
    /\ pnet' = pnet \cup {GetSettings(IdBase(pnet) + 1, "listen")}
    /\ UNCHANGED <<selectionVars, editorVars, customizablePrompts, promptPopup,
                   promptSrvVars, lastSave, lastDone, keydownListeners, detached>>
    /\ gestures < MaxPromptGestures
    /\ gestures' = gestures + 1
    /\ UNCHANGED offPrompt

\* The instance that listener i belongs to: the unmounted ones first, then the
\* mounted one.
Instance(i) == IF i <= Len(detached) THEN detached[i] ELSE Refs
Owner(i) == IF i <= Len(detached) THEN i ELSE 0

\* Whether savePrompt of an instance gets to its request.
SavesPrompt(inst) ==
    /\ inst.editing # NoPrompt
    /\ Len(MissingVariables(inst.prompts[inst.editing].variables, inst.input)) = 0

\* Ctrl+S: every listener on the document runs saveLLMSettings() and, if its
\* instance edits a prompt, savePrompt(), each to its await.
KeydownCtrlS ==
    LET listeners == 1..keydownListeners
        savers == {i \in listeners : SavesPrompt(Instance(i))}
        refused == {i \in listeners : Instance(i).editing # NoPrompt} \ savers
        last == CHOOSE i \in refused : \A j \in refused : j <= i
    IN  /\ keydownListeners > 0
        /\ Cardinality(pnet) + keydownListeners + Cardinality(savers) <= MaxKeyRequests
        /\ pnet' = pnet
              \cup {[PutSettings(IdBase(pnet) + 2 * i - 1, Instance(i).provider,
                                 Instance(i).model) EXCEPT !.owner = Owner(i)] :
                       i \in listeners}
              \cup {[PutPrompt(IdBase(pnet) + 2 * i, Instance(i).editing,
                               Instance(i).input) EXCEPT !.owner = Owner(i)] :
                       i \in savers}
        /\ promptPopup' =
              IF refused = {} THEN promptPopup
              ELSE Popup("error", "missingVariables",
                         MissingVariablesDesc(
                             Instance(last).prompts[Instance(last).editing].variables,
                             Instance(last).input))
        /\ UNCHANGED <<selectionVars, editorVars, customizablePrompts, promptSrvVars,
                       lastSave, lastDone, keydownListeners, promptMounted, detached>>
        /\ gestures < MaxPromptGestures
        /\ gestures' = gestures + 1
        /\ UNCHANGED offPrompt

\* The continuation of a request that the listener of an unmounted instance
\* sent: the popups are the application's, the refs are the instance's.
DetachedContinuation(m) ==
    /\ m \in pnet
    /\ m.stage = "response"
    /\ m.owner > 0
    /\ \/ /\ m.kind = "put_settings"
          /\ IF m.success
             THEN /\ promptPopup' = Popup("success", "saveLLMSettingsSuccess", <<>>)
                  /\ pnet' = (pnet \ {m}) \cup
                             {[GetSettings(m.id, "") EXCEPT !.owner = m.owner]}
             ELSE /\ promptPopup' = Popup("error", "saveLLMSettingsError", <<>>)
                  /\ pnet' = pnet \ {m}
          /\ UNCHANGED detached
       \/ /\ m.kind = "put_prompt"
          /\ promptPopup' = IF m.success THEN Popup("success", "promptSaved", <<>>)
                            ELSE Popup("error", "savePromptError", <<>>)
          /\ pnet' = pnet \ {m}
          /\ UNCHANGED detached
       \/ /\ m.kind = "get"
          /\ pnet' = pnet \ {m}
          /\ IF m.success
             THEN /\ detached' =
                        [detached EXCEPT ![m.owner] =
                            [@ EXCEPT !.provider = FindProvider(m.data.llmProvider).provider,
                                      !.model = FindModel(
                                          FindProvider(m.data.llmProvider).provider,
                                          m.data.llmModel),
                                      !.prompts = m.data.prompts]]
                  /\ UNCHANGED promptPopup
             ELSE /\ promptPopup' = Popup("error", "Failed to fetch LLM settings", <<>>)
                  /\ UNCHANGED detached
    /\ UNCHANGED <<selectionVars, editorVars, customizablePrompts, promptSrvVars,
                   lastSave, lastDone, keydownListeners, promptMounted>>
    /\ UNCHANGED <<gestures, offPrompt>>

\* resetToDefault without its first four assignments: the request only.
resetToDefaultRequestOnly ==
    /\ PromptCanSend(pnet)
    /\ pnet' = pnet \cup {Called(ResetAll(PromptFreeId(pnet)), "resetToDefault", pnet)}
    /\ UNCHANGED <<selectionVars, editorVars, customizablePrompts, promptPopup,
                   promptSrvVars, lastSave, lastDone, keydownListeners>>
    /\ PromptByUser

\* resetToDefault, up to its await: the page is reset before the request.
resetToDefault ==
    /\ PromptCanSend(pnet)
    /\ llmModel' = llmProviderOptions[1].models[1]
    /\ llmProvider' = llmProviderOptions[1].provider
    /\ promptInput' = <<>>
    /\ editingPrompt' = NoPrompt
    /\ pnet' = pnet \cup
           {[Called(ResetAll(PromptFreeId(pnet)), "resetToDefault", pnet)
                EXCEPT !.kept = (<<llmProvider', llmModel', editingPrompt', promptInput'>>
                                 = <<llmProvider, llmModel, editingPrompt, promptInput>>)]}
    /\ UNCHANGED <<customizablePrompts, promptPopup, promptSrvVars, lastSave,
                   lastDone, keydownListeners>>
    /\ PromptByUser

\* resetToDefault after its await
ResetToDefaultResponse(m) ==
    /\ m \in PromptResponses("reset_all")
    /\ IF m.success
       THEN /\ promptPopup' = Popup("success", "resetSuccess", <<>>)
            /\ pnet' = (pnet \ {m}) \cup {Continued(m, GetSettings(m.id, ""))}
       ELSE /\ promptPopup' = Popup("error", "resetError", <<>>)
            /\ pnet' = pnet \ {m}
    /\ UNCHANGED <<selectionVars, editorVars, customizablePrompts, promptSrvVars,
                   lastSave, lastDone, keydownListeners>>
    /\ PromptBySystem

\* resetSelectedPrompt, up to its await (its button is in the editor).
resetSelectedPrompt ==
    /\ editingPrompt # NoPrompt
    /\ PromptCanSend(pnet)
    /\ pnet' = pnet \cup {Called(ResetOne(PromptFreeId(pnet), editingPrompt),
                                "resetSelectedPrompt", pnet)}
    /\ UNCHANGED <<selectionVars, editorVars, customizablePrompts, promptPopup,
                   promptSrvVars, lastSave, lastDone, keydownListeners>>
    /\ PromptByUser

\* resetSelectedPrompt after its first await
ResetSelectedPromptResponse(m) ==
    /\ m \in PromptResponses("reset_one")
    /\ IF m.success
       THEN /\ promptPopup' = Popup("success", "resetSelectedSuccess", <<>>)
            /\ pnet' = (pnet \ {m}) \cup {Continued(m, GetSettings(m.id, "reload"))}
       ELSE /\ promptPopup' = Popup("error", "resetSelectedError", <<>>)
            /\ pnet' = pnet \ {m}
    /\ UNCHANGED <<selectionVars, editorVars, customizablePrompts, promptSrvVars,
                   lastSave, lastDone, keydownListeners>>
    /\ PromptBySystem

\* The textarea reloaded from the templates held before the fetch.
ReloadedStaleInput(loaded, held, key) == held[key].prompt

\* resetSelectedPrompt after fetchLLMSettings(): the textarea is reloaded from
\* the templates the fetch has loaded.
ReloadedInput(loaded, held, key) == loaded[key].prompt

\* fetchLLMSettings after its await, then what its caller does next.
FetchLLMSettingsResponse(m) ==
    /\ m \in PromptResponses("get")
    /\ pnet' = pnet \ {m}
    /\ IF m.success
       THEN /\ llmProvider' = FindProvider(m.data.llmProvider).provider
            /\ llmModel' = FindModel(llmProvider', m.data.llmModel)
            /\ customizablePrompts' = m.data.prompts
            /\ UNCHANGED promptPopup
       ELSE /\ promptPopup' = Popup("error", "Failed to fetch LLM settings", <<>>)
            /\ UNCHANGED <<selectionVars, customizablePrompts>>
    /\ promptInput' = IF m.then = "reload" /\ editingPrompt # NoPrompt
                      THEN ReloadedInput(customizablePrompts', customizablePrompts,
                                         editingPrompt)
                      ELSE promptInput
    /\ keydownListeners' = IF m.then = "listen" THEN keydownListeners + 1
                           ELSE keydownListeners
    /\ lastDone' = IF m.success /\ m.caller # "" THEN DoneAfter(m, pnet') ELSE lastDone
    /\ UNCHANGED <<editingPrompt, promptSrvVars, lastSave>>
    /\ PromptBySystem

\* ---- the settings endpoint, after the prompt-store contract: GET serves the
\* stored provider, model and templates with their required variables; PUT of a
\* provider and model stores a pair of the catalog and refuses any other; PUT of
\* a template stores a body holding every required placeholder and refuses any
\* other; DELETE resets everything, or one template, to the defaults.
PromptRespond(m, ok) == [m EXCEPT !.stage = "response", !.success = ok]

ServerData ==
    [llmProvider |-> srvProvider, llmModel |-> srvModel,
     prompts |-> [k \in PromptKeys |->
                     [prompt |-> srvPrompts[k], variables |-> RequiredVariables[k]]]]

ServerGetSettings(m) ==
    /\ m \in PromptRequests("get")
    /\ pnet' = (pnet \ {m}) \cup {[PromptRespond(m, TRUE) EXCEPT !.data = ServerData]}
    /\ UNCHANGED <<selectionVars, editorVars, customizablePrompts, promptPopup,
                   promptSrvVars, lastSave, lastDone, keydownListeners>>
    /\ PromptBySystem

InCatalog(provider, model) ==
    /\ provider \in ProviderNames
    /\ model \in Range(llmModelOptions(provider))

ServerPutSettings(m) ==
    /\ m \in PromptRequests("put_settings")
    /\ IF InCatalog(m.llmProvider, m.llmModel)
       THEN /\ srvProvider' = m.llmProvider
            /\ srvModel' = m.llmModel
            /\ pnet' = (pnet \ {m}) \cup {PromptRespond(m, TRUE)}
       ELSE /\ pnet' = (pnet \ {m}) \cup {PromptRespond(m, FALSE)}
            /\ UNCHANGED <<srvProvider, srvModel>>
    /\ UNCHANGED <<selectionVars, editorVars, customizablePrompts, promptPopup,
                   srvPrompts, lastSave, lastDone, keydownListeners>>
    /\ PromptBySystem

HoldsEveryPlaceholder(key, body) ==
    \A i \in DOMAIN RequiredVariables[key] :
        Includes(body, <<"{">> \o RequiredVariables[key][i] \o <<"}">>)

ServerPutPrompt(m) ==
    /\ m \in PromptRequests("put_prompt")
    /\ IF HoldsEveryPlaceholder(m.key, m.body)
       THEN /\ srvPrompts' = [srvPrompts EXCEPT ![m.key] = m.body]
            /\ pnet' = (pnet \ {m}) \cup {PromptRespond(m, TRUE)}
       ELSE /\ pnet' = (pnet \ {m}) \cup {PromptRespond(m, FALSE)}
            /\ UNCHANGED srvPrompts
    /\ UNCHANGED <<selectionVars, editorVars, customizablePrompts, promptPopup,
                   srvProvider, srvModel, lastSave, lastDone, keydownListeners>>
    /\ PromptBySystem

ServerReset(m) ==
    /\ \/ /\ m \in PromptRequests("reset_all")
          /\ srvProvider' = llmProviderOptions[1].provider
          /\ srvModel' = llmProviderOptions[1].models[1]
          /\ srvPrompts' = DefaultPrompts
       \/ /\ m \in PromptRequests("reset_one")
          /\ srvPrompts' = [srvPrompts EXCEPT ![m.key] = DefaultPrompts[m.key]]
          /\ UNCHANGED <<srvProvider, srvModel>>
    /\ pnet' = (pnet \ {m}) \cup {PromptRespond(m, TRUE)}
    /\ UNCHANGED <<selectionVars, editorVars, customizablePrompts, promptPopup,
                   lastSave, lastDone, keydownListeners>>
    /\ PromptBySystem

\* A request that fails on the way: no effect.
PromptRequestFails(m) ==
    /\ m \in pnet
    /\ m.stage = "request"
    /\ pnet' = (pnet \ {m}) \cup {PromptRespond(m, FALSE)}
    /\ UNCHANGED <<selectionVars, editorVars, customizablePrompts, promptPopup,
                   promptSrvVars, lastSave, lastDone, keydownListeners>>
    /\ PromptBySystem

\* ---------------------------------------------------- account settings page
\* src/unnamed/part_005, 3-6
MICROSOFT == "microsoft"
GOOGLE == "google"
YAHOO == "yahoo"
APPLE == "apple"

LinkProviders == {MICROSOFT, GOOGLE, YAHOO, APPLE}

\* userPlan is undefined, or its value is not set
NoPlan == [known |-> FALSE, isTrial |-> FALSE, isActive |-> FALSE]

Plans == {[known |-> TRUE, isTrial |-> t, isActive |-> a] : t, a \in BOOLEAN}
ActivePlan == [known |-> TRUE, isTrial |-> FALSE, isActive |-> TRUE]

\* sessionStorage.getItem answers null for a key that is not stored
NoItem == "<null>"

EmptyStorage == [typeApi |-> NoItem, userDescription |-> NoItem, regrantConsent |-> NoItem]

\* The one authorization code of the model and the mailbox it stands for.
AuthorizationCodes == {"code1"}
CodeEmail(code) == "user@mail"

\* result.data of a response that carries none
Undefined == [defined |-> FALSE, entries |-> <<>>]
Defined(list) == [defined |-> TRUE, entries |-> list]

\* A request of the account page and, later, its response. regrantConsent is
\* the second parameter of the linkEmail call the request belongs to, and mount
\* tells which mounted component made the call; neither is sent.
AccountMessage(mount, kind, continuation) ==
    [mount |-> mount, kind |-> kind, stage |-> "request", then |-> continuation,
     code |-> "", typeApi |-> NoItem, userDescription |-> NoItem,
     regrantConsent |-> FALSE,
     success |-> FALSE, error |-> "", data |-> Undefined]

LinkMessage(mount, code, storage, regrant) ==
    [AccountMessage(mount, "link", "") EXCEPT
        !.code = code, !.typeApi = storage.typeApi,
        !.userDescription = storage.userDescription, !.regrantConsent = regrant]

AccountRespond(m, ok, err, data) ==
    [m EXCEPT !.stage = "response", !.success = ok, !.error = err, !.data = data]

AccountRequests(kind) == {m \in anet : m.kind = kind /\ m.stage = "request"}
AccountResponses(kind) == {m \in anet : m.kind = kind /\ m.stage = "response"}

\* displayPopup
NoPopups == [shown |-> 0, last |-> Popup("", "", "")]
Show(popups, popup) == [shown |-> popups.shown + 1, last |-> popup]

\* A step of the account page leaves the other pages alone; a step of the user
\* also counts as one gesture.
AccountByUser ==
    /\ gestures < MaxAccountGestures
    /\ gestures' = gestures + 1
    /\ UNCHANGED offAccount

AccountBySystem == UNCHANGED <<gestures, offAccount>>

accountSrvVars == <<plan, srvLinked>>
browserVars == <<urlCode, sessionStorage>>

\* ---- the parent (settings page): it provides userPlan once it has the plan
\* of the user, and opens and closes the description modal.
ProvideUserPlan ==
    /\ userPlan = NoPlan
    /\ userPlan' = plan
    /\ UNCHANGED <<typeApi, isAddUserDescriptionModalOpen, emailsLinked, username,
                   accountPopups, mounts, anet, browserVars, accountSrvVars>>
    /\ AccountBySystem

CloseAddUserDescriptionModal ==
    /\ isAddUserDescriptionModalOpen
    /\ isAddUserDescriptionModalOpen' = FALSE
    /\ UNCHANGED <<typeApi, userPlan, emailsLinked, username, accountPopups, mounts,
                   anet, browserVars, accountSrvVars>>
    /\ AccountByUser

\* ---- authorize, 290-318: a click on one of the four provider buttons, which
\* the modal covers while it is open.
PlanRefusal(p) ==
    IF p.known /\ p.isTrial THEN "singleEmailTrialLinkLimit"
    ELSE IF p.known /\ ~p.isActive THEN "inactiveSubscriptionLinkError"
    ELSE ""

authorize(provider) ==
    /\ mounts > 0
    /\ ~isAddUserDescriptionModalOpen
    /\ IF PlanRefusal(userPlan) # ""
       THEN /\ accountPopups' = Show(accountPopups,
                   Popup("error", "failedToGenerateAuthURL", PlanRefusal(userPlan)))
            /\ UNCHANGED <<typeApi, isAddUserDescriptionModalOpen>>
       ELSE /\ typeApi' = provider
            /\ isAddUserDescriptionModalOpen' = (provider \in {MICROSOFT, GOOGLE})
            /\ UNCHANGED accountPopups
    /\ UNCHANGED <<userPlan, emailsLinked, username, mounts, anet, browserVars,
                   accountSrvVars>>
    /\ AccountByUser

\* ---- onMounted, 284-288: checkAuthorizationCode (320-332), fetchEmailLinked
\* and fetchUsername, each up to its first await. A component mounted anew
\* starts with its own typeApi; the continuations of the calls made by the
\* component mounted before still run.
LinkRequests(mount) ==
    IF urlCode # ""
    THEN {LinkMessage(mount, urlCode, sessionStorage, sessionStorage.regrantConsent = "true")}
    ELSE {}

AccountSent(mount) ==
    anet \cup LinkRequests(mount)
         \cup {AccountMessage(mount, "emails_linked", ""),
               AccountMessage(mount, "username", "")}

Mount ==
    /\ mounts < MaxMounts
    /\ ~isAddUserDescriptionModalOpen
    /\ Cardinality(AccountSent(mounts + 1)) <= MaxAccountInFlight
    /\ mounts' = mounts + 1
    /\ typeApi' = ""
    /\ anet' = AccountSent(mounts')
    /\ UNCHANGED <<userPlan, isAddUserDescriptionModalOpen, emailsLinked, username,
                   accountPopups, browserVars, accountSrvVars>>
    /\ AccountBySystem

\* ---- linkEmail after `await postData`, 345-363
PopupsAfterLinkAnnounced(popups, m) ==
    IF m.success
    THEN Show(popups, Popup("success", "success", "emailLinkedSuccess"))
    ELSE Show(popups, Popup("error", "emailLinkingFailure", m.error))

PopupsAfterLink(popups, m) ==
    IF m.success
    THEN popups
    ELSE Show(popups, Popup("error", "emailLinkingFailure", m.error))

LinkEmailResponse(m) ==
    /\ m \in AccountResponses("link")
    /\ accountPopups' = PopupsAfterLink(accountPopups, m)
    /\ IF m.success
       THEN /\ anet' = (anet \ {m}) \cup
                       {[AccountMessage(m.mount, "emails_linked", "linked")
                            EXCEPT !.regrantConsent = m.regrantConsent]}
            /\ UNCHANGED browserVars
       ELSE /\ anet' = anet \ {m}
            /\ sessionStorage' = EmptyStorage
            /\ urlCode' = ""
    /\ UNCHANGED <<typeApi, userPlan, isAddUserDescriptionModalOpen, emailsLinked,
                   username, mounts, accountSrvVars>>
    /\ AccountBySystem

\* ---- fetchEmailLinked after `await getData`, 368-370, and, when linkEmail
\* awaited it, the rest of linkEmail, 348-363. The result is an object whether
\* the request succeeded or not, so its data is assigned in both cases.
LinkedSuccess(m) ==
    Popup("success", "success",
          IF m.regrantConsent THEN "connectionReestablishedSuccess" ELSE "emailLinkedSuccess")

FetchEmailLinkedResponse(m) ==
    /\ m \in AccountResponses("emails_linked")
    /\ emailsLinked' = m.data
    /\ anet' = anet \ {m}
    /\ IF m.then = "linked"
       THEN /\ accountPopups' = Show(accountPopups, LinkedSuccess(m))
            /\ sessionStorage' = EmptyStorage
            /\ urlCode' = ""
       ELSE UNCHANGED <<accountPopups, browserVars>>
    /\ UNCHANGED <<typeApi, userPlan, isAddUserDescriptionModalOpen, username, mounts,
                   accountSrvVars>>
    /\ AccountBySystem

\* ---- fetchUsername after `await getData`, 376-387. The endpoint keeps no
\* state of the model, so the request, its handling and this continuation are
\* one step: the endpoint serves the name, or the request fails.
FetchUsernameResponse(m, ok) ==
    /\ m \in AccountRequests("username")
    /\ anet' = anet \ {m}
    /\ IF ok
       THEN /\ username' = "user"
            /\ UNCHANGED accountPopups
       ELSE /\ accountPopups' = Show(accountPopups,
                   Popup("error", "failedToFetchUsername", "network error"))
            /\ UNCHANGED username
    /\ UNCHANGED <<typeApi, userPlan, isAddUserDescriptionModalOpen, emailsLinked,
                   mounts, browserVars, accountSrvVars>>
    /\ AccountBySystem

\* ---- the account endpoints, after the account-link contract: exchanging the
\* code of a mailbox that is already linked renews its grant and adds no entry;
\* a request without a provider is refused.
IsLinked(linked, email, provider) ==
    \E i \in DOMAIN linked : linked[i].email = email /\ linked[i].typeApi = provider

LinkedTwiceAfterExchange(linked, email, provider) ==
    Append(linked, [email |-> email, typeApi |-> provider, grants |-> 1])

LinkedAfterExchange(linked, email, provider) ==
    IF IsLinked(linked, email, provider)
    THEN [i \in DOMAIN linked |->
             IF linked[i].email = email /\ linked[i].typeApi = provider
             THEN [linked[i] EXCEPT !.grants = @ + 1]
             ELSE linked[i]]
    ELSE Append(linked, [email |-> email, typeApi |-> provider, grants |-> 1])

ServerLink(m) ==
    /\ m \in AccountRequests("link")
    /\ IF m.typeApi \in LinkProviders
       THEN /\ srvLinked' = LinkedAfterExchange(srvLinked, CodeEmail(m.code), m.typeApi)
            /\ anet' = (anet \ {m}) \cup {AccountRespond(m, TRUE, "", Undefined)}
       ELSE /\ anet' = (anet \ {m}) \cup {AccountRespond(m, FALSE, "unknown provider", Undefined)}
            /\ UNCHANGED srvLinked
    /\ UNCHANGED <<typeApi, userPlan, isAddUserDescriptionModalOpen, emailsLinked,
                   username, accountPopups, mounts, browserVars, plan>>
    /\ AccountBySystem

\* What the list endpoint serves: the mailboxes without their grants.
ServedLinked(linked) ==
    [i \in DOMAIN linked |-> [email |-> linked[i].email, typeApi |-> linked[i].typeApi]]

ServerEmailsLinked(m) ==
    /\ m \in AccountRequests("emails_linked")
    /\ anet' = (anet \ {m}) \cup {AccountRespond(m, TRUE, "", Defined(ServedLinked(srvLinked)))}
    /\ UNCHANGED <<typeApi, userPlan, isAddUserDescriptionModalOpen, emailsLinked,
                   username, accountPopups, mounts, browserVars, accountSrvVars>>
    /\ AccountBySystem

\* The request does not reach the server, or the server fails.
AccountRequestFails(m) ==
    /\ m \in AccountRequests("link") \cup AccountRequests("emails_linked")
    /\ anet' = (anet \ {m}) \cup {AccountRespond(m, FALSE, "network error", Undefined)}
    /\ UNCHANGED <<typeApi, userPlan, isAddUserDescriptionModalOpen, emailsLinked,
                   username, accountPopups, mounts, browserVars, accountSrvVars>>
    /\ AccountBySystem

\* ---------------------------------------------------- classification engine
\* The engine, after its contract: per inbound email
\* Received -> PromptRendering -> Classifying -> Resolving -> Classified | Failed.
\* The relevance of a verdict is carried like its priority and is left out.
Idle == "Idle"
Received == "Received"
PromptRendering == "PromptRendering"
Classifying == "Classifying"
Resolving == "Resolving"
Classified == "Classified"
Failed == "Failed"

Terminal == {Classified, Failed}

\* Adapter calls for one email, the first one included.
MaxAttempts == 3

Priorities == {"high", "medium", "low"}

FlagNames == {"spam", "scam", "newsletter", "notification", "meeting"}

NoFlags == [f \in FlagNames |-> FALSE]

VerdictFlags ==
    {NoFlags, [NoFlags EXCEPT !["spam"] = TRUE], [f \in FlagNames |-> TRUE]}

\* Names a category can have in the Registry, and one that it never has.
RegistryNames == {DEFAULT_CATEGORY, "A", "B"}
VerdictNames == RegistryNames \cup {"Z"}

Verdicts == [categoryName : VerdictNames, priority : Priorities, flags : VerdictFlags]

NoVerdict == [categoryName |-> "", priority |-> "", flags |-> NoFlags]

\* category is null until the email is classified
NullName == "<null>"

\* The record of an email that has no verdict: flags and priority at their
\* defaults.
Unclassified(name) == [category |-> name, priority |-> defaultPriority, flags |-> NoFlags]

\* The fields an email supplies to a template, and the templates that may be
\* active: each is the set of its placeholders.
EmailFields == {"s", "t"}
Templates == {{"s"}, {"s", "t"}, {"s", "u"}}

AdapterCauses == {"timeout", "unavailable"}

EngineStep == UNCHANGED <<offEngine, gestures>>

\* An email enters the engine once the one before it is done.
Ingest ==
    /\ pipeline \in Terminal \cup {Idle}
    /\ received < MaxEmails
    /\ received' = received + 1
    /\ pipeline' = Received
    /\ emailRecord' = Unclassified(NullName)
    /\ attempts' = 0
    /\ lastError' = ""
    /\ verdict' = NoVerdict
    /\ activeTemplate' = {}
    /\ UNCHANGED <<registry, defaultPriority>>
    /\ EngineStep

\* Received: the content, the settings and the active template are loaded.
Load(template) ==
    /\ pipeline = Received
    /\ activeTemplate' = template
    /\ pipeline' = PromptRendering
    /\ UNCHANGED <<received, attempts, lastError, verdict, emailRecord, registry,
                   defaultPriority>>
    /\ EngineStep

\* The email is delivered to the Default Category unclassified.
Fails(error) ==
    /\ pipeline' = Failed
    /\ lastError' = error
    /\ emailRecord' = Unclassified(DEFAULT_CATEGORY)

\* PromptRendering: a placeholder that no field of the email resolves is a
\* TemplateRenderError.
Render ==
    /\ pipeline = PromptRendering
    /\ IF activeTemplate \subseteq EmailFields
       THEN /\ pipeline' = Classifying
            /\ UNCHANGED <<lastError, emailRecord>>
       ELSE Fails("TemplateRenderError")
    /\ UNCHANGED <<received, activeTemplate, attempts, verdict, registry,
                   defaultPriority>>
    /\ EngineStep

\* Classifying: the adapter returns a verdict.
AdapterAnswers(v) ==
    /\ pipeline = Classifying
    /\ verdict' = v
    /\ pipeline' = Resolving
    /\ UNCHANGED <<received, activeTemplate, attempts, lastError, emailRecord,
                   registry, defaultPriority>>
    /\ EngineStep

\* The adapter fails and the failure is not counted.
AdapterFailsUncounted(cause) ==
    /\ pipeline = Classifying
    /\ lastError' = cause
    /\ UNCHANGED <<pipeline, emailRecord, attempts>>
    /\ UNCHANGED <<received, activeTemplate, verdict, registry, defaultPriority>>
    /\ EngineStep

\* Classifying: the adapter fails; the call is made again unless it was the
\* last attempt.
AdapterFails(cause) ==
    /\ pipeline = Classifying
    /\ attempts' = attempts + 1
    /\ IF attempts' < MaxAttempts
       THEN /\ lastError' = cause
            /\ UNCHANGED <<pipeline, emailRecord>>
       ELSE Fails(cause)
    /\ UNCHANGED <<received, activeTemplate, verdict, registry, defaultPriority>>
    /\ EngineStep

\* A verdict resolved with its flags and priority kept whatever it names.
ResolvedAsGiven(v, names) ==
    [category |-> IF v.categoryName \in names THEN v.categoryName ELSE DEFAULT_CATEGORY,
     priority |-> v.priority, flags |-> v.flags]

\* Resolving: a verdict that names a category of the Registry is taken as it
\* is; any other resolves to the Default Category with neutral flags and the
\* default priority.
Resolved(v, names) ==
    IF v.categoryName \in names
    THEN [category |-> v.categoryName, priority |-> v.priority, flags |-> v.flags]
    ELSE Unclassified(DEFAULT_CATEGORY)

Resolve ==
    /\ pipeline = Resolving
    /\ emailRecord' = Resolved(verdict, registry)
    /\ pipeline' = Classified
    /\ UNCHANGED <<received, activeTemplate, attempts, lastError, verdict, registry,
                   defaultPriority>>
    /\ EngineStep

\* Another component creates or deletes a category; the Default Category stays.
RegistryChanges(name) ==
    /\ name # DEFAULT_CATEGORY
    /\ registry' = IF name \in registry THEN registry \ {name} ELSE registry \cup {name}
    /\ UNCHANGED <<pipeline, received, activeTemplate, attempts, lastError, verdict,
                   emailRecord, defaultPriority>>
    /\ EngineStep

\* ------------------------------------------------------------- preferences
ALLOWED_THEMES == {"light", "dark"}
ALLOWED_LANGUAGES ==
    {"french", "american", "german", "russian", "spanish", "chinese", "indian"}

\* UNAUTHENTICATED_URLS, each without BASE_URL
UNAUTHENTICATED_URLS ==
    {"", "signup", "signup-link", "password-reset-link", "reset-password-form"}

PreferenceKeys == <<"language", "theme", "timezone">>

\* The third argument of fetchUserPreference; the call for the time zone gives
\* none.
HasAllowedValues(key) == key # "timezone"
AllowedValues(key) ==
    IF key = "language" THEN ALLOWED_LANGUAGES
    ELSE IF key = "theme" THEN ALLOWED_THEMES
    ELSE {}

\* The addresses the application is opened at: the pieces of the href that
\* "?" separates.
Urls == {<<"">>, <<"signup", "next=1">>, <<"home">>, <<"settings", "tab=prefs">>}

\* What localStorage may hold for a key when the application starts.
StoredItems == {<<>>, <<"">>, <<"french">>, <<"dark">>, <<"klingon">>}

\* What data[key] of an answer may be.
ServerValues ==
    {[type |-> "undefined", text |-> ""], [type |-> "number", text |-> "5"]} \cup
    [type : {"string"}, text : {"", "german", "dark", "klingon", "Europe/Paris"}]

PreferenceRequest(key) ==
    [key |-> key, stage |-> "request", success |-> FALSE,
     data |-> [type |-> "undefined", text |-> ""]]

isUnAuthenticatedUrl(url) == \E baseUrl \in UNAUTHENTICATED_URLS : url[1] = baseUrl

\* The first lines of fetchUserPreference: whether the stored item is returned.
ReturnsStored(store, key) ==
    /\ store[key] # <<>>
    /\ store[key][1] # ""
    /\ HasAllowedValues(key)
    /\ store[key][1] \in AllowedValues(key)

Selection ==
    [language |-> languageSelected, locale |-> i18nLocale,
     theme |-> themeSelected, timezone |-> timezoneSelected]

\* `if (language) { ... }` and the like: what a value returned for a key
\* changes.
Selected(sel, key, value) ==
    IF value = "" THEN sel
    ELSE IF key = "language" THEN [sel EXCEPT !.language = value, !.locale = value]
    ELSE IF key = "theme" THEN [sel EXCEPT !.theme = value]
    ELSE [sel EXCEPT !.timezone = value]

RECURSIVE ToNextRequest(_, _, _)
\* initializePreferences from its k-th call of fetchUserPreference on, up to
\* the first call that has to ask the server: the selection then, and the
\* number of that call (one more than there are calls if none asks).
ToNextRequest(k, sel, store) ==
    IF k > Len(PreferenceKeys) THEN [sel |-> sel, at |-> k]
    ELSE IF ReturnsStored(store, PreferenceKeys[k])
         THEN ToNextRequest(k + 1,
                            Selected(sel, PreferenceKeys[k], store[PreferenceKeys[k]][1]),
                            store)
         ELSE [sel |-> sel, at |-> k]

PreferencesStep == UNCHANGED <<offPreferences, gestures>>

\* The selection a run reaches, and the request it sends if it has to.
RunsTo(reached) ==
    /\ languageSelected' = reached.sel.language
    /\ i18nLocale' = reached.sel.locale
    /\ themeSelected' = reached.sel.theme
    /\ timezoneSelected' = reached.sel.timezone
    /\ preferenceAwaited' = reached.at
    /\ prefNet' = IF reached.at > Len(PreferenceKeys) THEN {}
                  ELSE {PreferenceRequest(PreferenceKeys[reached.at])}

initializePreferences ==
    /\ preferenceAwaited = 0
    /\ IF isUnAuthenticatedUrl(currentUrl)
       THEN /\ preferenceAwaited' = Len(PreferenceKeys) + 1
            /\ UNCHANGED <<languageSelected, i18nLocale, themeSelected,
                           timezoneSelected, prefNet>>
       ELSE RunsTo(ToNextRequest(1, Selection, localStorage))
    /\ UNCHANGED <<localStorage, currentUrl>>
    /\ PreferencesStep

\* The value fetchUserPreference returns for an answer ("" for null), and
\* whether it stores it.
Returned(m) == IF m.success /\ m.data.type = "string" THEN m.data.text ELSE ""
Stores(m) == m.success /\ m.data.type = "string"

\* getData has answered: the rest of fetchUserPreference, and
\* initializePreferences up to its next request.
FetchUserPreferenceResponse(m) ==
    /\ m \in prefNet
    /\ m.stage = "response"
    /\ localStorage' = IF Stores(m) THEN [localStorage EXCEPT ![m.key] = <<m.data.text>>]
                       ELSE localStorage
    /\ RunsTo(ToNextRequest(preferenceAwaited + 1,
                            Selected(Selection, m.key, Returned(m)),
                            localStorage'))
    /\ UNCHANGED currentUrl
    /\ PreferencesStep

\* The endpoint answers 200 with an object.
ServerPreference(m, answer) ==
    /\ m \in prefNet
    /\ m.stage = "request"
    /\ prefNet' = {[m EXCEPT !.stage = "response", !.success = TRUE, !.data = answer]}
    /\ UNCHANGED <<languageSelected, i18nLocale, themeSelected, timezoneSelected,
                   localStorage, currentUrl, preferenceAwaited>>
    /\ PreferencesStep

\* The request fails: getData answers {success: false}.
PreferenceRequestFails(m) ==
    /\ m \in prefNet
    /\ m.stage = "request"
    /\ prefNet' = {[m EXCEPT !.stage = "response", !.success = FALSE]}
    /\ UNCHANGED <<languageSelected, i18nLocale, themeSelected, timezoneSelected,
                   localStorage, currentUrl, preferenceAwaited>>
    /\ PreferencesStep

\* ----------------------------------------------------------- specification
InitialCategories ==
    <<[name |-> DEFAULT_CATEGORY, description |-> ""],
      [name |-> "A", description |-> "d"],
      [name |-> "B", description |-> "d"]>>

\* The page as mounted: two categories beside the default one; category "A" may
\* own rules.
CategoryInit ==
    /\ isOpen = FALSE
    /\ category = NullCategory
    /\ categoryName = ""
    /\ categoryDescription = ""
    /\ errorMessage = ""
    /\ isCategoryDeletionModalOpen = FALSE
    /\ nbRulesLinked = 0
    /\ nbEmailsLinked = 0
    /\ categories = InitialCategories
    /\ selectedCategory = DEFAULT_CATEGORY
    /\ refreshPending = FALSE
    /\ newIsOpen = FALSE
    /\ newCategoryName = ""
    /\ newCategoryDescription = ""
    /\ newErrorMessage = ""
    /\ net = {}
    /\ srvCategories = {InitialCategories[i] : i \in DOMAIN InitialCategories}
    /\ \E r \in 0..MaxDependents :
          srvRules = [n \in CategoryNames |-> IF n = "A" THEN r ELSE 0]
    /\ srvEmails = [n \in CategoryNames |-> 0]
    /\ raced = FALSE
    /\ shownFor = "<none>"
    /\ lastKey = ""

\* The prompt page before it is mounted.
PromptIdle ==
    /\ llmProvider = llmProviderOptions[1].provider
    /\ llmModel = llmProviderOptions[1].models[1]
    /\ promptInput = <<>>
    /\ editingPrompt = NoPrompt
    /\ customizablePrompts = <<>>
    /\ promptPopup = NoPopup
    /\ pnet = {}
    /\ srvProvider = llmProviderOptions[1].provider
    /\ srvModel = llmProviderOptions[1].models[1]
    /\ srvPrompts = DefaultPrompts
    /\ lastSave = [key |-> NoPrompt, body |-> <<>>, put |-> FALSE, shown |-> NoPopup]
    /\ lastDone = NoneDone
    /\ keydownListeners = 0
    /\ promptMounted = FALSE
    /\ detached = <<>>

\* The engine with no email in it.
EngineIdle ==
    /\ pipeline = Idle
    /\ received = 0
    /\ activeTemplate = {}
    /\ attempts = 0
    /\ lastError = ""
    /\ verdict = NoVerdict
    /\ emailRecord = [category |-> NullName, priority |-> "medium", flags |-> NoFlags]
    /\ registry = RegistryNames
    /\ defaultPriority = "medium"

\* The preferences before the application initializes them.
PreferencesIdle ==
    /\ languageSelected = "american"
    /\ i18nLocale = "american"
    /\ themeSelected = "light"
    /\ timezoneSelected = "UTC"
    /\ localStorage = [key \in {"language", "theme", "timezone"} |-> <<>>]
    /\ currentUrl = <<"home">>
    /\ preferenceAwaited = 0
    /\ prefNet = {}

\* The account page before it is mounted.
AccountIdle ==
    /\ typeApi = ""
    /\ userPlan = NoPlan
    /\ isAddUserDescriptionModalOpen = FALSE
    /\ emailsLinked = Defined(<<>>)
    /\ username = ""
    /\ accountPopups = NoPopups
    /\ urlCode = ""
    /\ sessionStorage = EmptyStorage
    /\ mounts = 0
    /\ anet = {}
    /\ plan = ActivePlan
    /\ srvLinked = <<>>

CategoryNext ==
    \/ \E i \in DOMAIN categories : SelectCategory(categories[i])
    \/ \E i \in DOMAIN categories, fresh \in BOOLEAN :
          OpenUpdateModal(categories[i], fresh)
    \/ \E n \in TypedNames : TypeName(n)
    \/ \E d \in TypedDescriptions : TypeDescription(d)
    \/ CloseModal
    \/ UpdateCategory
    \/ OpenCategoryDeletionModal
    \/ CloseCategoryDeletionModal
    \/ \E closes \in BOOLEAN : ConfirmDeletion(closes)
    \/ \E m \in net : UpdateCategoryResponse(m)
    \/ \E m \in net : DependenciesResponse(m)
    \/ \E m \in net : DeleteCategoryResponse(m)
    \/ \E m \in net : ServerGetDependencies(m)
    \/ \E m \in net : ServerDelete(m)
    \/ \E m \in net : ServerUpdate(m)
    \/ \E m \in net : RequestFails(m)
    \/ \E n \in CategoryNames : ClassifyEmail(n)
    \/ FetchCategoriesAndTotals

\* The category page in use, the prompt page not mounted.
CategoryPageInit ==
    /\ CategoryInit
    /\ PromptIdle
    /\ AccountIdle
    /\ EngineIdle
    /\ PreferencesIdle
    /\ gestures = 0

SpecCategory == CategoryPageInit /\ [][CategoryNext]_vars

\* The steps of the two forms of the category page, the limits being tried.
FormsNext ==
    \/ OpenNewCategoryModal
    \/ \E n \in FormNames : TypeNewName(n)
    \/ \E d \in FormDescriptions : TypeNewDescription(d)
    \/ CloseNewModal
    \/ addCategory
    \/ \E m \in net : AddCategoryResponse(m)
    \/ \E m \in net : AddCategoryDone(m)
    \/ \E m \in net : ServerCreate(m)
    \/ \E i \in DOMAIN categories : OpenUpdateModal(categories[i], TRUE)
    \/ \E n \in FormNames : TypeName(n)
    \/ \E d \in FormDescriptions : TypeDescription(d)
    \/ CloseModal
    \/ UpdateCategory
    \/ \E m \in net : UpdateCategoryResponse(m)
    \/ \E m \in net : ServerUpdate(m)
    \/ \E m \in net : RequestFails(m)
    \/ FetchCategoriesAndTotals

SpecForms == CategoryPageInit /\ [][FormsNext]_vars

\* The category page with the modal that adds a category open and its form
\* filled in.
FilledInit ==
    /\ isOpen = FALSE
    /\ category = NullCategory
    /\ categoryName = ""
    /\ categoryDescription = ""
    /\ errorMessage = ""
    /\ isCategoryDeletionModalOpen = FALSE
    /\ nbRulesLinked = 0
    /\ nbEmailsLinked = 0
    /\ categories = InitialCategories
    /\ selectedCategory = DEFAULT_CATEGORY
    /\ refreshPending = FALSE
    /\ newIsOpen = TRUE
    /\ newCategoryName \in {Name50, "A"}
    /\ newCategoryDescription = "d"
    /\ newErrorMessage = ""
    /\ net = {}
    /\ srvCategories = {InitialCategories[i] : i \in DOMAIN InitialCategories}
    /\ srvRules = [n \in CategoryNames |-> 0]
    /\ srvEmails = [n \in CategoryNames |-> 0]
    /\ raced = FALSE
    /\ shownFor = "<none>"
    /\ lastKey = ""

CreatingInit ==
    /\ FilledInit
    /\ PromptIdle
    /\ AccountIdle
    /\ EngineIdle
    /\ PreferencesIdle
    /\ gestures = 0

CreatingNext ==
    \/ OpenNewCategoryModal
    \/ \E n \in FormNames : TypeNewName(n)
    \/ \E d \in FormDescriptions : TypeNewDescription(d)
    \/ CloseNewModal
    \/ addCategory
    \/ \E m \in net : AddCategoryResponse(m)
    \/ \E m \in net : AddCategoryDone(m)
    \/ \E m \in net : ServerCreate(m)
    \/ \E m \in net : RequestFails(m)

SpecCreating == CreatingInit /\ [][CreatingNext]_vars

\* The two modals driven by the keyboard: Enter submits, Escape closes; the
\* delete button of the update modal starts the dependency lookup.
KeysNext ==
    \/ OpenNewCategoryModal
    \/ \E n \in {"A", Name50} : TypeNewName(n)
    \/ \E d \in {"d"} : TypeNewDescription(d)
    \/ \E i \in DOMAIN categories, fresh \in BOOLEAN :
          OpenUpdateModal(categories[i], fresh)
    \/ \E n \in {"B"} : TypeName(n)
    \/ PressEnter
    \/ \E closes \in BOOLEAN : PressEscape(closes)
    \/ OpenCategoryDeletionModal
    \/ \E m \in net : AddCategoryResponse(m)
    \/ \E m \in net : AddCategoryDone(m)
    \/ \E m \in net : UpdateCategoryResponse(m)
    \/ \E m \in net : DependenciesResponse(m)
    \/ \E m \in net : DeleteCategoryResponse(m)
    \/ \E m \in net : ServerCreate(m)
    \/ \E m \in net : ServerUpdate(m)
    \/ \E m \in net : ServerGetDependencies(m)
    \/ \E m \in net : ServerDelete(m)
    \/ \E m \in net : RequestFails(m)
    \/ FetchCategoriesAndTotals

KeysInit == CategoryPageInit

SpecKeys == KeysInit /\ [][KeysNext]_vars

\* What the store may hold when the page is mounted: a pair of the catalog, or a
\* provider or a model that the catalog no longer lists.
StoredSettings ==
    {<<"google", "gemini-1.5-pro">>, <<"mistral", "mistral-small-latest">>,
     <<"cohere", "command-r">>, <<"openai", "gpt-4">>}

\* The prompt page as mounted: the refs hold their initial values and onMounted
\* has called fetchLLMSettings().
PromptInit ==
    /\ llmProvider = llmProviderOptions[1].provider
    /\ llmModel = llmProviderOptions[1].models[1]
    /\ promptInput = <<>>
    /\ editingPrompt = NoPrompt
    /\ customizablePrompts = <<>>
    /\ promptPopup = NoPopup
    /\ pnet = {GetSettings(1, "listen")}
    /\ \E stored \in StoredSettings :
          /\ srvProvider = stored[1]
          /\ srvModel = stored[2]
    /\ srvPrompts = DefaultPrompts
    /\ lastSave = [key |-> NoPrompt, body |-> <<>>, put |-> FALSE, shown |-> NoPopup]
    /\ lastDone = NoneDone
    /\ keydownListeners = 0
    /\ promptMounted = TRUE
    /\ detached = <<>>

\* The category page stays as first shown.
CategoryIdle ==
    /\ isOpen = FALSE
    /\ category = NullCategory
    /\ categoryName = ""
    /\ categoryDescription = ""
    /\ errorMessage = ""
    /\ isCategoryDeletionModalOpen = FALSE
    /\ nbRulesLinked = 0
    /\ nbEmailsLinked = 0
    /\ categories = InitialCategories
    /\ selectedCategory = DEFAULT_CATEGORY
    /\ refreshPending = FALSE
    /\ newIsOpen = FALSE
    /\ newCategoryName = ""
    /\ newCategoryDescription = ""
    /\ newErrorMessage = ""
    /\ net = {}
    /\ srvCategories = {InitialCategories[i] : i \in DOMAIN InitialCategories}
    /\ srvRules = [n \in CategoryNames |-> 0]
    /\ srvEmails = [n \in CategoryNames |-> 0]
    /\ raced = FALSE
    /\ shownFor = "<none>"
    /\ lastKey = ""

\* The steps of the page other than the two selections of the LLM settings.
EditorNext ==
    \/ \E k \in PromptKeys : setEditingPrompt(k)
    \/ \E body \in TypedBodies : TypePrompt(body)
    \/ savePrompt
    \/ saveLLMSettings
    \/ CtrlS
    \/ resetToDefault
    \/ resetSelectedPrompt
    \/ \E m \in pnet : SavePromptResponse(m)
    \/ \E m \in pnet : SaveLLMSettingsResponse(m)
    \/ \E m \in pnet : ResetToDefaultResponse(m)
    \/ \E m \in pnet : ResetSelectedPromptResponse(m)
    \/ \E m \in pnet : FetchLLMSettingsResponse(m)
    \/ \E m \in pnet : ServerGetSettings(m)
    \/ \E m \in pnet : ServerPutSettings(m)
    \/ \E m \in pnet : ServerPutPrompt(m)
    \/ \E m \in pnet : ServerReset(m)
    \/ \E m \in pnet : PromptRequestFails(m)

PromptNext ==
    \/ \E p \in ProviderNames, selectFirst \in BOOLEAN : SelectProvider(p, selectFirst)
    \/ \E p \in ProviderNames : \E n \in Range(llmModelOptions(p)) : SelectModel(n)
    \/ EditorNext

\* The prompt page in use, the category page left alone.
PromptPageInit ==
    /\ PromptInit
    /\ CategoryIdle
    /\ AccountIdle
    /\ EngineIdle
    /\ PreferencesIdle
    /\ gestures = 0

SpecPrompt == PromptPageInit /\ [][PromptNext]_vars

\* The prompt page with the provider and the model left as loaded.
SpecPromptEditor == PromptPageInit /\ [][EditorNext]_vars

\* Templates the store may hold when the page is mounted: the defaults, or the
\* first template customised.
StoredTemplates ==
    {DefaultPrompts,
     [DefaultPrompts EXCEPT !["promptA"] = <<"{", "s", "}", "{", "t", "}">>]}

\* The prompt page as mounted over a store whose settings are the defaults and
\* whose templates may be customised.
StoreInit ==
    /\ llmProvider = llmProviderOptions[1].provider
    /\ llmModel = llmProviderOptions[1].models[1]
    /\ promptInput = <<>>
    /\ editingPrompt = NoPrompt
    /\ customizablePrompts = <<>>
    /\ promptPopup = NoPopup
    /\ pnet = {GetSettings(1, "listen")}
    /\ srvProvider = llmProviderOptions[1].provider
    /\ srvModel = llmProviderOptions[1].models[1]
    /\ srvPrompts \in StoredTemplates
    /\ lastSave = [key |-> NoPrompt, body |-> <<>>, put |-> FALSE, shown |-> NoPopup]
    /\ lastDone = NoneDone
    /\ keydownListeners = 0
    /\ promptMounted = TRUE
    /\ detached = <<>>

\* The steps that read or write the templates.
StoreNext ==
    \/ \E k \in PromptKeys : setEditingPrompt(k)
    \/ \E body \in TypedBodies : TypePrompt(body)
    \/ savePrompt
    \/ resetToDefault
    \/ resetSelectedPrompt
    \/ \E m \in pnet : SavePromptResponse(m)
    \/ \E m \in pnet : ResetToDefaultResponse(m)
    \/ \E m \in pnet : ResetSelectedPromptResponse(m)
    \/ \E m \in pnet : FetchLLMSettingsResponse(m)
    \/ \E m \in pnet : ServerGetSettings(m)
    \/ \E m \in pnet : ServerPutPrompt(m)
    \/ \E m \in pnet : ServerReset(m)
    \/ \E m \in pnet : PromptRequestFails(m)

PromptStoreInit ==
    /\ StoreInit
    /\ CategoryIdle
    /\ AccountIdle
    /\ EngineIdle
    /\ PreferencesIdle
    /\ gestures = 0

SpecPromptStore == PromptStoreInit /\ [][StoreNext]_vars

\* The page left and entered again, with the keyboard shortcut and the list of
\* prompts in use.
MountsNext ==
    \/ PromptUnmount
    \/ PromptMount
    \/ KeydownCtrlS
    \/ \E k \in PromptKeys : promptMounted /\ setEditingPrompt(k)
    \/ \E m \in pnet : DetachedContinuation(m)
    \/ \E m \in pnet : m.owner = 0 /\ SavePromptResponse(m)
    \/ \E m \in pnet : m.owner = 0 /\ SaveLLMSettingsResponse(m)
    \/ \E m \in pnet : m.owner = 0 /\ FetchLLMSettingsResponse(m)
    \/ \E m \in pnet : ServerGetSettings(m)
    \/ \E m \in pnet : ServerPutSettings(m)
    \/ \E m \in pnet : ServerPutPrompt(m)
    \/ \E m \in pnet : PromptRequestFails(m)

PromptMountsInit ==
    /\ StoreInit
    /\ CategoryIdle
    /\ AccountIdle
    /\ EngineIdle
    /\ PreferencesIdle
    /\ gestures = 0

SpecPromptMounts == PromptMountsInit /\ [][MountsNext]_vars

\* The prompt page some time after it was mounted: the settings are loaded,
\* nothing is in flight, and the first prompt is open in the editor with a
\* body typed over the loaded one.
EditingInit ==
    /\ llmProvider = llmProviderOptions[1].provider
    /\ llmModel = llmProviderOptions[1].models[1]
    /\ srvProvider = llmProviderOptions[1].provider
    /\ srvModel = llmProviderOptions[1].models[1]
    /\ srvPrompts = DefaultPrompts
    /\ customizablePrompts = ServerData.prompts
    /\ editingPrompt = "promptA"
    /\ promptInput \in TypedBodies \ {DefaultPrompts["promptA"]}
    /\ promptPopup = NoPopup
    /\ pnet = {}
    /\ lastSave = [key |-> NoPrompt, body |-> <<>>, put |-> FALSE, shown |-> NoPopup]
    /\ lastDone = NoneDone
    /\ keydownListeners = 1
    /\ promptMounted = TRUE
    /\ detached = <<>>

PromptEditingInit ==
    /\ EditingInit
    /\ CategoryIdle
    /\ AccountIdle
    /\ EngineIdle
    /\ PreferencesIdle
    /\ gestures = 0

SpecPromptEditing == PromptEditingInit /\ [][StoreNext]_vars


\* The account page about to be mounted, the parent not having provided the
\* plan yet: the user, on some plan, opens the page.
AccountInit ==
    /\ typeApi = ""
    /\ userPlan = NoPlan
    /\ isAddUserDescriptionModalOpen = FALSE
    /\ emailsLinked = Defined(<<>>)
    /\ username = ""
    /\ accountPopups = NoPopups
    /\ urlCode = ""
    /\ sessionStorage = EmptyStorage
    /\ mounts = 0
    /\ anet = {}
    /\ plan \in Plans
    /\ srvLinked = <<>>

AccountNext ==
    \/ ProvideUserPlan
    \/ CloseAddUserDescriptionModal
    \/ \E provider \in LinkProviders : authorize(provider)
    \/ Mount
    \/ \E m \in anet : FetchEmailLinkedResponse(m)
    \/ \E m \in anet, ok \in BOOLEAN : FetchUsernameResponse(m, ok)
    \/ \E m \in anet : ServerEmailsLinked(m)
    \/ \E m \in anet : AccountRequestFails(m)

\* The account page in use, the other pages left alone.
AccountPageInit ==
    /\ AccountInit
    /\ CategoryIdle
    /\ PromptIdle
    /\ EngineIdle
    /\ PreferencesIdle
    /\ gestures = 0

SpecAccount == AccountPageInit /\ [][AccountNext]_vars

\* What the browser holds when the provider has redirected back to the page:
\* the code, and the items stored before the redirect.
Arrivals ==
    {[code |-> c,
      storage |-> [typeApi |-> p, userDescription |-> "mine", regrantConsent |-> r]] :
        c \in AuthorizationCodes, p \in {GOOGLE, NoItem}, r \in {"true", NoItem}}

\* The account page about to be mounted after the redirect: the user, on an
\* active plan, links a mailbox or renews the consent for one, and the mailbox
\* of the code may be linked already.
LinkingInit ==
    /\ typeApi = ""
    /\ userPlan = ActivePlan
    /\ isAddUserDescriptionModalOpen = FALSE
    /\ emailsLinked = Defined(<<>>)
    /\ username = ""
    /\ accountPopups = NoPopups
    /\ \E arrival \in Arrivals :
          /\ urlCode = arrival.code
          /\ sessionStorage = arrival.storage
          /\ srvLinked \in {<<>>, <<[email |-> CodeEmail(arrival.code),
                                      typeApi |-> GOOGLE, grants |-> 1]>>}
    /\ mounts = 0
    /\ anet = {}
    /\ plan = ActivePlan

\* The steps of the page once the provider has redirected back to it.
LinkingNext ==
    \/ Mount
    \/ \E m \in anet : LinkEmailResponse(m)
    \/ \E m \in anet : FetchEmailLinkedResponse(m)
    \/ \E m \in anet, ok \in BOOLEAN : FetchUsernameResponse(m, ok)
    \/ \E m \in anet : ServerLink(m)
    \/ \E m \in anet : ServerEmailsLinked(m)
    \/ \E m \in anet : AccountRequestFails(m)

LinkingPageInit ==
    /\ LinkingInit
    /\ CategoryIdle
    /\ PromptIdle
    /\ EngineIdle
    /\ PreferencesIdle
    /\ gestures = 0

SpecLinking == LinkingPageInit /\ [][LinkingNext]_vars

\* The application started at any of the addresses with anything in
\* localStorage.
PreferencesInit ==
    /\ languageSelected = "american"
    /\ i18nLocale = "american"
    /\ themeSelected = "light"
    /\ timezoneSelected = "UTC"
    /\ localStorage \in [{"language", "theme", "timezone"} -> StoredItems]
    /\ currentUrl \in Urls
    /\ preferenceAwaited = 0
    /\ prefNet = {}

PreferencesNext ==
    \/ initializePreferences
    \/ \E m \in prefNet : FetchUserPreferenceResponse(m)
    \/ \E m \in prefNet : \E answer \in ServerValues : ServerPreference(m, answer)
    \/ \E m \in prefNet : PreferenceRequestFails(m)

PreferencesPageInit ==
    /\ PreferencesInit
    /\ CategoryIdle
    /\ PromptIdle
    /\ AccountIdle
    /\ EngineIdle
    /\ gestures = 0

SpecPreferences == PreferencesPageInit /\ [][PreferencesNext]_vars

\* ------------------------------------------------- category properties
DeleteMessages == {m \in net : m.kind = "delete_category"}

\* C1: a delete request goes out without confirmation exactly when the
\* dependency lookup for that same category succeeded with no rules and no
\* emails; any other delete request was confirmed in the deletion modal showing
\* the counts of that category.
C1_DeleteGatedByLookup ==
    \A m \in DeleteMessages :
        /\ m.depsName = m.categoryName
        /\ m.confirmed <=> ~(m.basisRules = 0 /\ m.basisEmails = 0)

\* C2: no delete_category request names the Default Category and no
\* update_category request renames it.
C2_DefaultNeverDeletedOrRenamed ==
    \A m \in net :
        /\ ~(m.kind = "delete_category" /\ m.categoryName = DEFAULT_CATEGORY)
        /\ ~(/\ m.kind = "update_category"
             /\ m.categoryName = DEFAULT_CATEGORY
             /\ m.newCategoryName # DEFAULT_CATEGORY)

\* C3: a delete proceeds on fresh counts, that is, what the server
\* finds when it deletes a category is what the dependency read for that category
\* reported.
C3_DeleteOnFreshCounts ==
    \A m \in Responses("delete_category") :
        (m.success /\ m.depsName = m.categoryName) =>
            (m.nbRules = m.basisRules /\ m.nbEmails = m.basisEmails)

\* C22: every delete_category request names the category that get_dependencies
\* was asked about, and the response to a successful delete removes that
\* category, and no other, from the local list.
C22_DeleteTargetsLookedUp ==
    [][/\ \A m \in net' : m.kind = "delete_category" => m.categoryName = m.depsName
       /\ \A m \in net :
             (DeleteCategoryResponse(m) /\ m.success) =>
                Names(categories') = Names(categories) \ {m.depsName}]_vars

\* C26: when create_categories has failed, the continuation of addCategory
\* leaves the list and the selection as they are, goes on to no further
\* request, and closes the modal with its fields reset; when it has succeeded,
\* the continuation appends the category that was created, once, and selects
\* it.
C26_CreateOutcome ==
    [][\A m \in net :
          AddCategoryResponse(m) =>
             IF m.success
             THEN /\ categories' = Append(categories, [name |-> m.categoryName,
                                                       description |-> m.description])
                  /\ selectedCategory' = m.categoryName
             ELSE /\ categories' = categories
                  /\ selectedCategory' = selectedCategory
                  /\ net' = net \ {m}
                  /\ ~newIsOpen'
                  /\ newCategoryName' = ""
                  /\ newCategoryDescription' = ""
                  /\ newErrorMessage' = ""]_vars

\* The requests of one kind that a step sends.
Sent(kind) == {m \in net' \ net : m.kind = kind /\ m.stage = "request"}

\* C25: a step sends create_categories only while the modal that adds a
\* category is open, update_category and get_dependencies only while the modal
\* that updates one is open, and at most one create_categories and one
\* update_category.
C25_ClosedModalSendsNothing ==
    [][/\ Sent("create_categories") # {} => newIsOpen
       /\ Sent("update_category") # {} => isOpen
       /\ Sent("get_dependencies") # {} => isOpen
       /\ Cardinality(Sent("create_categories")) <= 1
       /\ Cardinality(Sent("update_category")) <= 1]_vars

\* Enter was pressed with both modals closed and both forms filled in as a
\* request needs them.
C25_Witness ==
    /\ lastKey = "Enter"
    /\ ~isOpen
    /\ ~newIsOpen
    /\ ValidationError(categoryName, categoryDescription) = ""
    /\ net = {}

\* C4: when two delete requests for one name are in flight together and one is
\* answered with success, the other is not answered with success too, the name
\* leaves the local list, and no other name does.
C4_ConcurrentDeletesRemoveOnce ==
    [][\A m \in net \ net', m2 \in net :
          (/\ m # m2
           /\ m.kind = "delete_category"
           /\ m2.kind = "delete_category"
           /\ m.categoryName = m2.categoryName
           /\ m.stage = "response"
           /\ m.success) =>
              /\ ~(m2.stage = "response" /\ m2.success)
              /\ m.categoryName \notin Names(categories')
              /\ \A n \in Names(categories) \ {m.categoryName} :
                    n \in Names(categories')]_vars

\* C5: once an update and a delete of one category have been in flight together
\* and everything has been answered, the local list is the server's, and the
\* selection is a category of that list.
Quiescent == net = {} /\ ~refreshPending

C5_RaceEndsConsistent ==
    (raced /\ Quiescent) =>
        /\ Names(categories) = SrvNames
        /\ selectedCategory \in Names(categories)

\* C6: the handling of a delete request either changes nothing on the server or
\* removes the category, deletes all its rules and moves all its emails to the
\* Default Category.
C6_ForcedDeleteAllOrNothing ==
    [][\A m \in Requests("delete_category") \ net' :
          LET n == m.categoryName IN
          \/ UNCHANGED srvVars
          \/ /\ n \in SrvNames
             /\ n \notin SrvNames'
             /\ srvCategories' \subseteq srvCategories
             /\ srvRules' = [srvRules EXCEPT ![n] = 0]
             /\ srvEmails' = [srvEmails EXCEPT
                                 ![DEFAULT_CATEGORY] = @ + srvEmails[n], ![n] = 0]]_vars

\* A delete was carried out for a category that had a rule and an email.
C6_Witness ==
    \E m \in Responses("delete_category") :
        /\ m.success
        /\ m.nbRules > 0
        /\ m.nbEmails > 0
        /\ srvEmails[DEFAULT_CATEGORY] >= m.nbEmails
        /\ srvRules[m.categoryName] = 0

\* C14: the names of the categories the client holds are pairwise distinct,
\* after any sequence of submissions, renames and deletions.
C14_NamesPairwiseDistinct ==
    \A i, j \in DOMAIN categories : i # j => categories[i].name # categories[j].name

\* What the two forms must refuse.
OutOfBounds(name, desc) ==
    \/ Trim(name) = ""
    \/ Trim(desc) = ""
    \/ StrLen(name) > 50
    \/ StrLen(desc) > 300

\* C15: addCategory and updateCategory validate alike. When the name or the
\* description is blank after trimming, the name is longer than 50 characters
\* or the description longer than 300, the call sets an error message, sends
\* nothing and leaves the list and the selection as they are; otherwise, a
\* name of 50 and a description of 300 characters included, it sends the
\* request with the two values.
C15_FormsValidateAlike ==
    [][/\ \A n \in FormNames \cup TypedNames, d \in FormDescriptions \cup TypedDescriptions :
             (NewValidationError(n, d) = "") = (ValidationError(n, d) = "")
       /\ addCategory =>
             IF OutOfBounds(newCategoryName, newCategoryDescription)
             THEN /\ newErrorMessage' # ""
                  /\ net' = net
                  /\ categories' = categories
                  /\ selectedCategory' = selectedCategory
             ELSE \E m \in net' \ net :
                     /\ m.kind = "create_categories"
                     /\ m.categoryName = newCategoryName
                     /\ m.description = newCategoryDescription
       /\ UpdateCategory =>
             IF OutOfBounds(categoryName, categoryDescription)
             THEN /\ errorMessage' # ""
                  /\ net' = net
                  /\ categories' = categories
                  /\ selectedCategory' = selectedCategory
             ELSE \E m \in net' \ net :
                     /\ m.kind = "update_category"
                     /\ m.newCategoryName = categoryName
                     /\ m.description = categoryDescription]_vars

\* A name of exactly 50 characters and a description of exactly 300 have been
\* submitted in the modal that adds a category, and the request is on its way.
C15_Witness ==
    \E m \in net :
        /\ m.kind = "create_categories"
        /\ m.categoryName = Name50
        /\ m.description = Description300

\* C16: the selection names a category that exists. The step that receives
\* the response of a successful delete leaves the Default Category selected and
\* the deleted name out of the list; and whenever every request has been
\* answered and the list refreshed, the selected category is in the list and
\* on the server.
C16_SelectionExists ==
    [][/\ \A m \in net :
             (DeleteCategoryResponse(m) /\ m.success) =>
                /\ selectedCategory' = DEFAULT_CATEGORY
                /\ m.categoryName \notin Names(categories')
       /\ Quiescent' =>
             /\ selectedCategory' \in Names(categories')
             /\ selectedCategory' \in {c.name : c \in srvCategories'}]_vars

\* --------------------------------------------------- prompt-page properties
\* C7: savePrompt issues the PUT if and only if every required variable of the
\* edited prompt occurs as {variable} in the body: every PUT of a template in
\* flight carries such a body, and the last savePrompt call sent its PUT exactly
\* when its body was such a body.
C7_PutIffEveryPlaceholder ==
    /\ \A m \in pnet :
          m.kind = "put_prompt" => HoldsEveryPlaceholder(m.key, m.body)
    /\ lastSave.key # NoPrompt =>
          (lastSave.put <=> HoldsEveryPlaceholder(lastSave.key, lastSave.body))

\* A save was refused for a body that holds one placeholder whole and the other
\* one without its closing brace.
C7_Witness ==
    /\ lastSave.key = "promptB"
    /\ ~lastSave.put
    /\ Includes(lastSave.body, <<"{", "t", "}">>)
    /\ Includes(lastSave.body, <<"{", "s">>)
    /\ \A m \in pnet : m.kind # "put_prompt"
    /\ srvPrompts = DefaultPrompts

\* C8: a save refused for missing variables shows an error that names exactly
\* the required variables whose placeholder the body lacks.
C8_ErrorListsEveryMissingVariable ==
    (lastSave.key # NoPrompt /\ ~lastSave.put) =>
        /\ lastSave.shown.type = "error"
        /\ lastSave.shown.title = "missingVariables"
        /\ \A i \in DOMAIN RequiredVariables[lastSave.key] :
              LET v == RequiredVariables[lastSave.key][i] IN
              Includes(lastSave.shown.message, v) <=>
                  ~Includes(lastSave.body, <<"{">> \o v \o <<"}">>)

\* A save was refused with both variables missing, and the popup names both.
C8_Witness ==
    /\ lastSave.key = "promptB"
    /\ ~lastSave.put
    /\ promptPopup = lastSave.shown
    /\ promptPopup.message = <<"s", ",", " ", "t">>

\* C9: every step in which the provider multiselect selects a provider ends with
\* that provider selected and its first model as the model, whichever event
\* comes first.
C9_ProviderChangeResetsModel ==
    [][\A p \in ProviderNames, selectFirst \in BOOLEAN :
          SelectProvider(p, selectFirst) =>
              /\ llmProvider' = p
              /\ llmModel' = FindProvider(p).models[1]]_vars

\* C10: the selected model is a model of the selected provider, and so is every
\* pair that saveLLMSettings sends.
C10_ModelBelongsToProvider ==
    /\ InCatalog(llmProvider, llmModel)
    /\ \A m \in pnet :
          m.kind = "put_settings" => InCatalog(m.llmProvider, m.llmModel)

\* C18: when the stored settings name a provider that is not in the catalog,
\* or a model that is not in the catalog of the stored provider, loading them
\* reports an error and puts no other provider or model in their place: the
\* selection stays as it was.
C18_UnknownSettingsRejected ==
    [][\A m \in pnet :
          (/\ FetchLLMSettingsResponse(m)
           /\ m.success
           /\ ~InCatalog(m.data.llmProvider, m.data.llmModel)) =>
             /\ promptPopup'.type = "error"
             /\ llmProvider' = llmProvider
             /\ llmModel' = llmModel]_vars

\* C17: resetToDefault, once its request has succeeded and its reload of the
\* settings has ended, with nothing else in flight and no gesture meanwhile,
\* leaves the first provider of the catalog and its first model selected
\* (google, gemini-1.5-pro), no prompt being edited and the textarea empty,
\* and that is also what the store holds, with the default templates.
C17_ResetAllRestoresDefaults ==
    [][\A m \in pnet :
          (/\ FetchLLMSettingsResponse(m)
           /\ m.caller = "resetToDefault"
           /\ m.alone
           /\ m.clicked = gestures) =>
             /\ llmProvider' = "google"
             /\ llmModel' = "gemini-1.5-pro"
             /\ llmProvider' = llmProviderOptions[1].provider
             /\ llmModel' = llmProviderOptions[1].models[1]
             /\ editingPrompt' = NoPrompt
             /\ promptInput' = <<>>
             /\ srvProvider' = llmProvider'
             /\ srvModel' = llmModel'
             /\ srvPrompts' = DefaultPrompts]_vars

\* resetToDefault, called after the page had been used, has just ended: its
\* request succeeded and its reload was answered, nothing else having happened.
C17_Witness ==
    /\ lastDone.op = "resetToDefault"
    /\ lastDone.at = gestures
    /\ gestures >= 2
    /\ pnet = {}
    /\ promptPopup.title = "resetSuccess"

\* The requests of one kind that a step of the prompt page sends.
PromptSent(kind) == {m \in pnet' \ pnet : m.kind = kind /\ m.stage = "request"}

\* C29: a Ctrl+S sends one saveLLMSettings request if the page is mounted and
\* none if it is not, however often the page was mounted before, and it sends
\* a savePrompt request only if the page is mounted and a prompt is edited, and
\* then at most one.
C29_OneSavePerKeypress ==
    [][KeydownCtrlS =>
          /\ Cardinality(PromptSent("put_settings")) = (IF promptMounted THEN 1 ELSE 0)
          /\ Cardinality(PromptSent("put_prompt")) <=
                (IF promptMounted /\ editingPrompt # NoPrompt THEN 1 ELSE 0)]_vars

\* C27: when the request of resetToDefault has failed, nothing else having
\* been in flight and no gesture made since the call, the page shows the
\* provider, the model, the edited prompt and the text that it showed before
\* the call.
C27_FailedResetChangesNothing ==
    [][\A m \in pnet :
          (/\ ResetToDefaultResponse(m)
           /\ ~m.success
           /\ m.alone
           /\ m.clicked = gestures) =>
              /\ m.kept
              /\ UNCHANGED <<llmProvider, llmModel, editingPrompt, promptInput>>]_vars

\* C24: when the last call that ended is a successful savePrompt for a prompt
\* and nothing is in flight, selecting that prompt loads the saved body into
\* promptInput.
C24_SavedTextShown ==
    [][\A k \in PromptKeys :
          (/\ setEditingPrompt(k)
           /\ lastDone.op = "savePrompt"
           /\ lastDone.key = k
           /\ pnet = {}) =>
              promptInput' = lastDone.body]_vars

\* A call that repeats the call that ended just before it, with nothing else in
\* flight and no gesture since.
Repeating(m, now) == m.again /\ m.clicked = now

\* C19: resetSelectedPrompt, resetToDefault, or savePrompt with the same body,
\* called a second time right after it succeeded, leaves at every step up to
\* its end the templates, provider, model, editingPrompt and promptInput that
\* the first call left, in the store and on the page; and the store answers the
\* reset of a template that is already the default with success and keeps the
\* templates, the provider and the model as they are.
C19_StoreOperationsIdempotent ==
    [][/\ \A m \in pnet \cup pnet' : Repeating(m, gestures') => Snapshot' = m.before
       /\ \A m \in pnet :
             (/\ ServerReset(m) /\ m.kind = "reset_one"
              /\ srvPrompts[m.key] = DefaultPrompts[m.key]) =>
                /\ UNCHANGED promptSrvVars
                /\ \E r \in pnet' : r.id = m.id /\ r.stage = "response" /\ r.success]_vars

\* resetSelectedPrompt has ended a second time in a row on the first template.
C19_Witness ==
    /\ lastDone.times = 2
    /\ lastDone.op = "resetSelectedPrompt"
    /\ lastDone.key = "promptA"
    /\ lastDone.at = gestures
    /\ pnet = {}
    /\ promptInput = DefaultPrompts["promptA"]
    /\ srvPrompts = DefaultPrompts

\* The engine before the first email: a Registry that holds the Default
\* Category, and a default priority.
EngineInit ==
    /\ pipeline = Idle
    /\ received = 0
    /\ activeTemplate = {}
    /\ attempts = 0
    /\ lastError = ""
    /\ verdict = NoVerdict
    /\ defaultPriority \in Priorities
    /\ emailRecord = Unclassified(NullName)
    /\ registry \in {{DEFAULT_CATEGORY}, {DEFAULT_CATEGORY, "A"}}

EngineNext ==
    \/ Ingest
    \/ \E template \in Templates : Load(template)
    \/ Render
    \/ \E v \in Verdicts : AdapterAnswers(v)
    \/ \E cause \in AdapterCauses : AdapterFails(cause)
    \/ Resolve
    \/ \E name \in RegistryNames : RegistryChanges(name)

EnginePageInit ==
    /\ EngineInit
    /\ CategoryIdle
    /\ PromptIdle
    /\ AccountIdle
    /\ PreferencesIdle
    /\ gestures = 0

SpecEngine == EnginePageInit /\ [][EngineNext]_vars

\* The engine keeps working on the email it holds: loading, rendering and
\* resolving are its own steps, and a call of the adapter returns, with a
\* verdict or with an error. Nothing obliges a further email to arrive or
\* the Registry to change.
AdapterReturns ==
    \/ \E v \in Verdicts : AdapterAnswers(v)
    \/ \E cause \in AdapterCauses : AdapterFails(cause)

EngineFairInit == EnginePageInit

SpecEngineFair ==
    /\ EngineFairInit
    /\ [][EngineNext]_vars
    /\ WF_vars(\E template \in Templates : Load(template))
    /\ WF_vars(Render)
    /\ WF_vars(AdapterReturns)
    /\ WF_vars(Resolve)

\* ------------------------------------------------------ engine properties
\* C20: resolving a verdict whose category is not in the Registry gives the
\* email the Default Category, all five flags false and the default priority,
\* and takes the pipeline to Classified, not to Failed.
C20_UnknownCategoryResolvesToDefault ==
    [][(Resolve /\ verdict.categoryName \notin registry) =>
          /\ pipeline' = Classified
          /\ emailRecord'.category = DEFAULT_CATEGORY
          /\ \A f \in FlagNames : emailRecord'.flags[f] = FALSE
          /\ emailRecord'.priority = defaultPriority]_vars

\* An email is Classified whose verdict named a category the Registry does not
\* hold, set flags, and gave another priority than the default one.
C20_Witness ==
    /\ pipeline = Classified
    /\ verdict.categoryName \notin registry
    /\ verdict.flags["spam"]
    /\ verdict.priority # defaultPriority
    /\ emailRecord = Unclassified(DEFAULT_CATEGORY)

\* C21: every email that enters Received reaches Classified or Failed; the
\* adapter fails at most MaxAttempts times for one email, and the failure that
\* exhausts the attempts takes the email to Failed with that error as the last
\* error; a Failed email is in the Default Category with no flag set and the
\* default priority.
C21_NoEmailDropped ==
    /\ (pipeline = Received) ~> (pipeline \in Terminal)
    /\ [](attempts <= MaxAttempts)
    /\ [](attempts = MaxAttempts => pipeline = Failed /\ lastError \in AdapterCauses)
    /\ [][\A cause \in AdapterCauses :
            (AdapterFails(cause) /\ attempts + 1 = MaxAttempts) =>
                pipeline' = Failed /\ lastError' = cause]_vars
    /\ [](pipeline = Failed =>
            /\ emailRecord.category = DEFAULT_CATEGORY
            /\ emailRecord.flags = NoFlags
            /\ emailRecord.priority = defaultPriority)

\* An email has Failed after the adapter failed for the last allowed time.
C21_Witness ==
    /\ pipeline = Failed
    /\ attempts = MaxAttempts
    /\ lastError \in AdapterCauses
    /\ emailRecord = Unclassified(DEFAULT_CATEGORY)

\* ------------------------------------------------- account-page properties
\* What the plan of the user calls for, whatever the page has been given.
Restricted == plan.isTrial \/ ~plan.isActive

\* C11: a call of authorize is settled by the plan of the user first. When the
\* plan is a trial or the subscription is not active, the call is denied with
\* one error popup, records no provider and opens no description modal;
\* otherwise it records the provider, and opens the description modal for
\* Microsoft and for Google.
C11_AuthorizeGatedByPlan ==
    [][\A provider \in LinkProviders :
          authorize(provider) =>
             IF Restricted
             THEN /\ typeApi' = typeApi
                  /\ isAddUserDescriptionModalOpen' = isAddUserDescriptionModalOpen
                  /\ accountPopups'.shown = accountPopups.shown + 1
                  /\ accountPopups'.last.type = "error"
             ELSE /\ typeApi' = provider
                  /\ isAddUserDescriptionModalOpen' = (provider \in {MICROSOFT, GOOGLE})
                  /\ accountPopups' = accountPopups]_vars

NoTwoEntries(list) ==
    \A i, j \in DOMAIN list :
        i # j => ~(list[i].email = list[j].email /\ list[i].typeApi = list[j].typeApi)

\* C28: the continuation of fetchEmailLinked leaves emailsLinked as it is when
\* the request has failed, so that emailsLinked is always an array; only the
\* data of a successful response replaces it.
C28_FailedFetchKeepsList ==
    [][\A m \in anet :
          FetchEmailLinkedResponse(m) =>
             /\ emailsLinked'.defined
             /\ ~m.success => emailsLinked' = emailsLinked
             /\ m.success => emailsLinked' = m.data]_vars

\* C23: a link request is sent only if no link request was sent before for the
\* code of the URL, neither one still in flight nor one whose linkEmail has
\* not yet cleaned the URL, and it carries the typeApi and the userDescription
\* that sessionStorage holds.
C23_CodeSubmittedOnce ==
    [][\A m \in anet' \ anet :
          (m.kind = "link" /\ m.stage = "request") =>
             /\ ~\E n \in anet :
                    \/ n.kind = "link" /\ n.code = m.code
                    \/ n.kind = "emails_linked" /\ n.then = "linked"
             /\ m.typeApi = sessionStorage.typeApi
             /\ m.userDescription = sessionStorage.userDescription]_vars

\* C12: exchanging the same authorization code again, consent being granted
\* anew, adds no second mailbox: neither the mailboxes the server holds nor the
\* list the page shows ever has two entries with the same email and typeApi.
C12_LinkingIdempotent ==
    /\ NoTwoEntries(srvLinked)
    /\ emailsLinked.defined => NoTwoEntries(emailsLinked.entries)

\* The code has been exchanged twice for a mailbox that was linked already, the
\* page has reported the renewed consent and shows the one mailbox.
C12_Witness ==
    /\ Len(srvLinked) = 1
    /\ srvLinked[1].grants = 3
    /\ accountPopups.last.message = "connectionReestablishedSuccess"
    /\ emailsLinked = Defined(ServedLinked(srvLinked))

\* C13: after a link attempt. Success is reported only by the step in which
\* the fetchEmailLinked call awaited by linkEmail ends and assigns the list, and
\* the step that receives the successful link response reports nothing and
\* starts that call. The step that receives a failed link response shows one
\* error popup whose message is the error string of the response, assigns no
\* list and sends no request: no refresh, no second link request.
C13_RefreshThenReport ==
    [][/\ (accountPopups' # accountPopups /\ accountPopups'.last.type = "success") =>
             \E m \in AccountResponses("emails_linked") :
                 /\ m.then = "linked"
                 /\ anet' = anet \ {m}
                 /\ emailsLinked' = m.data
       /\ \A m \in anet :
             LinkEmailResponse(m) =>
                IF m.success
                THEN /\ accountPopups' = accountPopups
                     /\ \E f \in anet' \ anet :
                            f.kind = "emails_linked" /\ f.then = "linked"
                ELSE /\ accountPopups' =
                            Show(accountPopups, Popup("error", "emailLinkingFailure", m.error))
                     /\ emailsLinked' = emailsLinked
                     /\ anet' = anet \ {m}]_vars

\* A link request has been refused by the server and the one popup shown since
\* the page was opened carries the server's words.
C13_Witness ==
    /\ accountPopups = Show(NoPopups, Popup("error", "emailLinkingFailure", "unknown provider"))
    /\ urlCode = ""
    /\ ~\E m \in anet : m.kind = "link"

\* ------------------------------------------------ preference properties
\* C30: once initializePreferences is over the language selected and the
\* locale are among ALLOWED_LANGUAGES and the theme is among ALLOWED_THEMES,
\* whatever localStorage held and the server answered; no step stores a
\* language or a theme outside its allowed set in localStorage or selects one;
\* and at an unauthenticated address no request is sent and the selection
\* stays american, light, UTC.
C30_PreferencesAllowed ==
    /\ [](preferenceAwaited > Len(PreferenceKeys) =>
            /\ languageSelected \in ALLOWED_LANGUAGES
            /\ i18nLocale \in ALLOWED_LANGUAGES
            /\ themeSelected \in ALLOWED_THEMES)
    /\ [](isUnAuthenticatedUrl(currentUrl) =>
            /\ prefNet = {}
            /\ <<languageSelected, i18nLocale, themeSelected, timezoneSelected>> =
                   <<"american", "american", "light", "UTC">>)
    /\ [][/\ \A key \in {"language", "theme"} :
               localStorage'[key] # localStorage[key] =>
                   localStorage'[key][1] \in AllowedValues(key)
          /\ languageSelected' \in ALLOWED_LANGUAGES
          /\ i18nLocale' \in ALLOWED_LANGUAGES
          /\ themeSelected' \in ALLOWED_THEMES]_vars

====
